---------------------------- MODULE Spec2Model ----------------------------
(***************************************************************************)
(* HoloSelf OS: the speech playback queue (stores/agentStore), the         *)
(* proactive rules engine (hooks/useHealthContext, two versions in the     *)
(* repository), the push-to-talk voice capture controller                  *)
(* (components/hud/VoiceOrb + hooks/useVoiceListener), the presence        *)
(* detector (hooks/usePresenceDetector), the posture monitor               *)
(* (hooks/usePostureMonitor), the typing-speed monitor                     *)
(* (hooks/useKeystrokeWpm) and the daily summary (hooks/useDailySummary).  *)
(*                                                                         *)
(* The components share no state; each has its own specification           *)
(* (SpecQueue, SpecRules, SpecVoice, SpecPresence, SpecPosture, SpecWpm,   *)
(* SpecSummary) over the one variable tuple.                               *)
(***************************************************************************)
EXTENDS Integers, Sequences, FiniteSets, TLC

(***************************************************************************)
(* Bounds of the model.                                                    *)
(***************************************************************************)
\* number of speech tasks ever enqueued in one run
MaxTasks == 3
\* the rules engine's clock runs over MaxTime time units after start-up
MaxTime == 4
\* the hook's minAlertGapMs option, in the model's time units
minAlertGapMs == 3
\* the push-to-talk window LISTEN_DURATION_MS, in countdown seconds
ListenSecs == 2
\* number of activations (click or hotkey in ready) in one run
MaxActivations == 2
\* number of recordings the voice-activity loop starts in one run
MaxRecordings == 1
\* the presence detector's absenceThresholdMs option, in the model's time units
absenceThresholdMs == 2
\* the presence detector's clock runs over MaxClock time units after mount
MaxClock == 8
\* the posture monitor's badPostureThresholdMs option, in check intervals
badPostureThresholdMs == 2
\* number of posture interval ticks in one run
MaxTicks == 11
\* number of WPM evaluation ticks in one run
MaxWpmTicks == 11
\* the daily summary's clock runs over days 0..MaxDays
MaxDays == 2
\* number of checkTime calls (interval firings and effect re-runs) per day
MaxChecks == 3
\* time the long run of the rules engine may idle in total, beyond the alert
\* gaps it needs to overflow the alert history
LongRunSlack == 2
\* number of startTracking calls of the blink widget in one run
MaxBlinkStarts == 2
\* frames a blink detection loop samples after its calibration frame
ExtraFrames == 2
\* frames a blink detection loop samples in the lifecycle runs
LifecycleFrames == 2
\* length of a blink tracking run, in statistics periods of 5 seconds
MaxBlinkClock == 25
\* mounts of the component that uses the hotkey hook in one run
MaxMounts == 3
\* startConversation calls in one run
MaxConvoStarts == 2
\* processUserInput calls in one run
MaxConvoInputs == 2
\* the conversation's maxTurns option
maxTurns == 1

VARIABLES
  \* ---- speech queue (agentStore) ----
  _isSpeaking,     \* module-level flag: a task is executing
  _speechQueue,    \* module-level FIFO of task ids not yet started
  taskPhase,       \* per task: "new" | "queued" | "producing" | "playing" | "ok" | "threw" | "playfail"
  taskMeta,        \* per enqueued task: who enqueued it and whether a task was active then
  startLog,        \* task ids in the order their bodies started
  doneLog,         \* task ids in the order their bodies settled
  audio,           \* the shared AudioContext: _audioCtx, the handles created and closed, who played on which
  isSpeaking,      \* the store's isSpeaking flag (set by the tasks' getText)
  \* ---- rules engine (useHealthContext), both versions side by side ----
  now,             \* Date.now(), in time units
  lastAlertRef,    \* per version: lastAlertRef.current
  alerts,          \* per version: the alerts state, newest first
  tick,            \* the last evaluation tick: what held and what each version passed to onAlert
  emitted,         \* per version: every alert passed to onAlert so far, oldest first
  \* ---- voice capture (VoiceOrb + useVoiceListener) ----
  tauri,           \* typeof window.__TAURI__ !== "undefined"
  orb,             \* VoiceOrb: mode, countdown, countdownRef, cooldownRef, mounted, liveIntervals
  mic,             \* useVoiceListener: its state, its refs and the resources behind them
  handed,          \* origins of the blobs processAudioChunk accepted (size >= 1000)
  activations,     \* activations so far
  recordings,      \* recordings started so far
  lastInput,       \* whether a click or hotkey press happened, and the mode the last one met
  \* ---- presence detector (usePresenceDetector) ----
  clock,           \* Date.now() as the presence detector reads it, in time units
  presence,        \* usePresenceDetector: its state, its refs, the camera and the video element
  calls,           \* the onLeave / onReturn invocations so far, in order
  \* ---- posture monitor (usePostureMonitor) ----
  ptime,           \* Date.now() as the posture monitor reads it, in check intervals
  posture,         \* usePostureMonitor: its state and its refs
  tickLog,         \* per analysed frame: when, the raw score and the score exposed
  badCalls,        \* the onBadPosture invocations so far: when and with what duration
  \* ---- typing speed (useKeystrokeWpm) ----
  wticks,          \* evaluation ticks since the session started
  wpm,             \* useKeystrokeWpm: the snapshot and the refs
  \* ---- daily summary (useDailySummary) ----
  sclock,          \* the wall clock: local day and the position in Instants
  scheduler,       \* useDailySummary: options, refs and the checks awaiting fetchStats
  summaries,       \* local day of each onSummaryReady invocation, in order
  checked,         \* checkTime calls so far on the current day
  \* ---- blink rate (BlinkRateWidget) ----
  blink,           \* the widget: enabled, error, stats and the refs
  camera,          \* per startTracking call: how far it got; the live streams and timers
  loops,           \* per startTracking call: the variables its detectBlink closes over
  \* ---- global hotkey (useGlobalHotkey) ----
  hotkey,          \* which mount is current, the version of the hook, the bindings
  effects,         \* per mount: the locals of its effect and how far setup() got
  \* ---- conversation mode (useConversationMode) ----
  convo,           \* state, windowTimerRef, the scheduled timers, turnsRef's length
  inputs           \* per processUserInput call: which await it is suspended at

queueVars ==
  <<_isSpeaking, _speechQueue, taskPhase, taskMeta, startLog, doneLog, audio,
    isSpeaking>>

rulesVars == <<now, lastAlertRef, alerts, tick, emitted>>

voiceVars == <<tauri, orb, mic, handed, activations, recordings, lastInput>>

presenceVars == <<clock, presence, calls>>

postureVars == <<ptime, posture, tickLog, badCalls>>

wpmVars == <<wticks, wpm>>

summaryVars == <<sclock, scheduler, summaries, checked>>

blinkVars == <<blink, camera, loops>>

hotkeyVars == <<hotkey, effects>>

convoVars == <<convo, inputs>>

vars ==
  <<queueVars, rulesVars, voiceVars, presenceVars, postureVars, wpmVars,
    summaryVars, blinkVars, hotkeyVars, convoVars>>

\* the components share no state: a step of one leaves the others alone
QueueOnly == UNCHANGED <<rulesVars, voiceVars, presenceVars, postureVars, wpmVars, summaryVars, blinkVars, hotkeyVars, convoVars>>
RulesOnly == UNCHANGED <<queueVars, voiceVars, presenceVars, postureVars, wpmVars, summaryVars, blinkVars, hotkeyVars, convoVars>>
VoiceOnly == UNCHANGED <<queueVars, rulesVars, presenceVars, postureVars, wpmVars, summaryVars, blinkVars, hotkeyVars, convoVars>>
PresenceOnly == UNCHANGED <<queueVars, rulesVars, voiceVars, postureVars, wpmVars, summaryVars, blinkVars, hotkeyVars, convoVars>>
WpmOnly == UNCHANGED <<queueVars, rulesVars, voiceVars, presenceVars, postureVars, summaryVars, blinkVars, hotkeyVars, convoVars>>
SummaryOnly == UNCHANGED <<queueVars, rulesVars, voiceVars, presenceVars, postureVars, wpmVars, blinkVars, hotkeyVars, convoVars>>
BlinkOnly ==
  UNCHANGED <<queueVars, rulesVars, voiceVars, presenceVars, postureVars, wpmVars,
              summaryVars, hotkeyVars, convoVars>>
HotkeyOnly ==
  UNCHANGED <<queueVars, rulesVars, voiceVars, presenceVars, postureVars, wpmVars,
              summaryVars, blinkVars, convoVars>>
ConvoOnly ==
  UNCHANGED <<queueVars, rulesVars, voiceVars, presenceVars, postureVars, wpmVars,
              summaryVars, blinkVars, hotkeyVars>>
PostureOnly == UNCHANGED <<queueVars, rulesVars, voiceVars, presenceVars, wpmVars, summaryVars, blinkVars, hotkeyVars, convoVars>>

(***************************************************************************)
(* Speech playback queue                                                   *)
(***************************************************************************)
TaskIds == 1..MaxTasks

\* the three producers of speech tasks: fetchMessage's auto-speak, the manual
\* speak button (speakCurrent) and the daily summary (speakText)
Callers == {"auto", "manual", "daily"}

NoMeta == [caller |-> "none", busy |-> FALSE]

ActivePhases == {"producing", "playing"}

ActiveTasks(phase) == {t \in TaskIds : phase[t] \in ActivePhases}

\* the module-level state processSpeechQueue reads and writes, as one record
QueueState ==
  [spk |-> _isSpeaking, q |-> _speechQueue, phase |-> taskPhase, started |-> startLog,
   store |-> isSpeaking]

\* mutant: the _isSpeaking guard is dropped
processSpeechQueue_NoGuard(s) ==
  IF s.q = <<>> THEN s
  ELSE [s EXCEPT !.spk = TRUE,
                 !.q = Tail(s.q),
                 !.phase[Head(s.q)] = "producing",
                 !.started = Append(s.started, Head(s.q)),
                 !.store = TRUE]

\* mutant: pop() instead of shift()
processSpeechQueue_Pop(s) ==
  IF s.spk \/ s.q = <<>> THEN s
  ELSE LET n == Len(s.q) IN
       [s EXCEPT !.spk = TRUE,
                 !.q = SubSeq(s.q, 1, n - 1),
                 !.phase[s.q[n]] = "producing",
                 !.started = Append(s.started, s.q[n]),
                 !.store = TRUE]

\* processSpeechQueue up to the first suspension of the task it starts:
\* the task body runs synchronously into `await getText()`, and getText
\* (speakCurrent, speakText) begins with set({ isSpeaking: true })
processSpeechQueue(s) ==
  IF s.spk \/ s.q = <<>> THEN s
  ELSE [s EXCEPT !.spk = TRUE,
                 !.q = Tail(s.q),
                 !.phase[Head(s.q)] = "producing",
                 !.started = Append(s.started, Head(s.q)),
                 !.store = TRUE]

SetQueueState(s) ==
  /\ _isSpeaking' = s.spk
  /\ _speechQueue' = s.q
  /\ taskPhase' = s.phase
  /\ startLog' = s.started
  /\ isSpeaking' = s.store

\* queueSpeak(getText): push the task, then processSpeechQueue()
queueSpeak(c) ==
  \E t \in TaskIds :
    /\ taskPhase[t] = "new"
    /\ \A u \in TaskIds : u < t => taskPhase[u] # "new"
    /\ taskMeta' = [taskMeta EXCEPT ![t] = [caller |-> c, busy |-> ActiveTasks(taskPhase) # {}]]
    /\ SetQueueState(processSpeechQueue(
         [QueueState EXCEPT !.q = Append(_speechQueue, t), !.phase[t] = "queued"]))
    /\ UNCHANGED <<doneLog, audio>>
    /\ QueueOnly

\* mutant: _isSpeaking is cleared after a task that resolved only (no finally)
finallyState_OnSuccessOnly(s, t, outcome) ==
  [s EXCEPT !.spk = (outcome = "threw"), !.phase[t] = outcome]

\* mutant: the finally leaves _isSpeaking as it is
finallyState_KeepsFlag(s, t, outcome) ==
  [s EXCEPT !.phase[t] = outcome]

\* `finally { _isSpeaking = false; ... }` after `await task()` settled
finallyState(s, t, outcome) ==
  [s EXCEPT !.spk = FALSE, !.phase[t] = outcome]

\* the `finally` of getText when the invoke rejected: set({ isSpeaking: false })
\* (when it resolved, the finally ran before the playback, in AudioProduced)
getTextFinally(s, outcome) ==
  IF outcome = "threw" THEN [s EXCEPT !.store = FALSE] ELSE s

\* the `finally` of processSpeechQueue after `await task()` settled with `outcome`
TaskSettled(t, outcome) ==
  /\ doneLog' = Append(doneLog, t)
  /\ SetQueueState(processSpeechQueue(
       finallyState(getTextFinally(QueueState, outcome), t, outcome)))
  /\ UNCHANGED taskMeta
  /\ QueueOnly

\* no AudioContext: _audioCtx = null, and a task that has not played
NoHandle == 0

\* getAudioCtx(): a new AudioContext when there is none or it is closed
getAudioCtx(a) ==
  IF a.ctx = NoHandle \/ a.ctx \in a.closed
  THEN [a EXCEPT !.ctx = a.created + 1, !.created = @ + 1]
  ELSE a

\* mutant: the catch closes the handle and leaves it in _audioCtx
catchPlayback_KeepsHandle(a, h) ==
  [a EXCEPT !.closed = @ \cup {h}]

\* playAudioBytes, the catch: `_audioCtx = null; audioCtx.close()` for the
\* handle h the failed playback had obtained
catchPlayback(a, h) ==
  [a EXCEPT !.ctx = NoHandle, !.closed = @ \cup {h}]

\* `await getText()` resolves, after getText's finally has run
\* set({ isSpeaking: false }): the task goes on into playAudioBytes, which
\* obtains the shared handle
AudioProduced(t) ==
  /\ taskPhase[t] = "producing"
  /\ taskPhase' = [taskPhase EXCEPT ![t] = "playing"]
  /\ isSpeaking' = FALSE
  /\ LET a == getAudioCtx(audio)
     IN audio' = [a EXCEPT !.used[t] = a.ctx]
  /\ UNCHANGED <<_isSpeaking, _speechQueue, taskMeta, startLog, doneLog>>
  /\ QueueOnly

\* `await getText()` rejects (TTS invoke failed): the task throws
AudioProductionThrows(t) ==
  /\ taskPhase[t] = "producing"
  /\ TaskSettled(t, "threw")
  /\ UNCHANGED audio

\* source.onended: playAudioBytes resolves, the task resolves
PlaybackEnded(t) ==
  /\ taskPhase[t] = "playing"
  /\ TaskSettled(t, "ok")
  /\ UNCHANGED audio

\* decode/playback error: caught inside playAudioBytes, the task resolves
PlaybackFails(t) ==
  /\ taskPhase[t] = "playing"
  /\ audio' = catchPlayback(audio, audio.used[t])
  /\ TaskSettled(t, "playfail")

InitQueue ==
  /\ _isSpeaking = FALSE
  /\ _speechQueue = <<>>
  /\ taskPhase = [t \in TaskIds |-> "new"]
  /\ taskMeta = [t \in TaskIds |-> NoMeta]
  /\ startLog = <<>>
  /\ doneLog = <<>>
  /\ audio = [ctx |-> NoHandle, created |-> 0, closed |-> {},
              used |-> [t \in TaskIds |-> NoHandle]]
  /\ isSpeaking = FALSE

NextQueue ==
  \/ \E c \in Callers : queueSpeak(c)
  \/ \E t \in TaskIds : AudioProduced(t)
  \/ \E t \in TaskIds : AudioProductionThrows(t)
  \/ \E t \in TaskIds : PlaybackEnded(t)
  \/ \E t \in TaskIds : PlaybackFails(t)


(***************************************************************************)
(* Rules engine: useHealthContext                                          *)
(*   "firstMatch" is hooks/useHealthContext.ts (the file App imports),     *)
(*   "collect" is the version of the hook in hooks/useKeystrokeWpm.ts.     *)
(* Both are fed the same metrics snapshots at the same clock values.       *)
(***************************************************************************)
Versions == {"firstMatch", "collect"}

\* setAlerts(prev => [alert, ...prev].slice(0, 20))
HistoryCap == 20

\* metrics snapshots: one representative per combination of rule outcomes
\* (wpmTrend "rising" is tested nowhere and behaves as "stable")
WpmTrends == {"stable", "declining"}
FocusValues == {30, 50, 62, 95, 121, 130}
PostureValues == {40, 60, 80}
BreakValues == {0, 1}

Metrics ==
  [wpmTrend : WpmTrends, postureScore : PostureValues, isPresent : BOOLEAN,
   focusDurationMin : FocusValues, breaksTaken : BreakValues]

Rules == 1..5

\* the condition of each rule, in the order of the source
RuleHolds(r, m) ==
  CASE r = 1 -> m.wpmTrend = "declining" /\ m.focusDurationMin > 90
    [] r = 2 -> m.postureScore < 50
    [] r = 3 -> m.focusDurationMin > 120 /\ m.breaksTaken = 0
    [] r = 4 -> m.focusDurationMin > 60 /\ m.focusDurationMin % 60 < 6
    [] r = 5 -> m.focusDurationMin > 45 /\ m.postureScore < 70

RuleType(r) ==
  CASE r = 1 -> "break" [] r = 2 -> "posture" [] r = 3 -> "hydrate"
    [] r = 4 -> "eyecare" [] r = 5 -> "posture"

RulePriority(r) ==
  CASE r = 1 -> 1 [] r = 2 -> 1 [] r = 3 -> 2 [] r = 4 -> 3 [] r = 5 -> 2

Matched(m) == {r \in Rules : RuleHolds(r, m)}

\* the fireAlert call an evaluation makes, if any
NoCall == [rule |-> 0]
Call(r) == [rule |-> r, type |-> RuleType(r), priority |-> RulePriority(r)]

\* mutant: the presence gate is dropped
evaluateFirstMatch_NoGate(m) ==
  IF RuleHolds(1, m) THEN Call(1)
  ELSE IF RuleHolds(2, m) THEN Call(2)
  ELSE IF RuleHolds(3, m) THEN Call(3)
  ELSE IF RuleHolds(4, m) THEN Call(4)
  ELSE IF RuleHolds(5, m) THEN Call(5)
  ELSE NoCall

\* useHealthContext.ts evaluate: the first rule that holds fires and returns
evaluateFirstMatch(m) ==
  IF ~m.isPresent THEN NoCall
  ELSE IF RuleHolds(1, m) THEN Call(1)
  ELSE IF RuleHolds(2, m) THEN Call(2)
  ELSE IF RuleHolds(3, m) THEN Call(3)
  ELSE IF RuleHolds(4, m) THEN Call(4)
  ELSE IF RuleHolds(5, m) THEN Call(5)
  ELSE NoCall

\* candidates.push(...) in rule order
RECURSIVE Candidates(_, _)
Candidates(m, r) ==
  IF r > 5 THEN <<>>
  ELSE (IF RuleHolds(r, m) THEN <<Call(r)>> ELSE <<>>) \o Candidates(m, r + 1)

\* candidates.sort((a, b) => a.priority - b.priority)[0]: the sort is stable,
\* so the head is the first candidate of the lowest priority number
SortedHead(cands) ==
  LET best == CHOOSE i \in 1..Len(cands) :
                \A j \in 1..Len(cands) :
                  \/ cands[i].priority < cands[j].priority
                  \/ cands[i].priority = cands[j].priority /\ i <= j
  IN cands[best]

\* useKeystrokeWpm.ts evaluate: collect every rule that holds, fire the best
evaluateCollect(m) ==
  IF ~m.isPresent THEN NoCall
  ELSE LET cands == Candidates(m, 1) IN
       IF Len(cands) > 0 THEN SortedHead(cands) ELSE NoCall

evaluate(v, m) == IF v = "firstMatch" THEN evaluateFirstMatch(m) ELSE evaluateCollect(m)

\* mutant: the rate limit is dropped
RateLimited_Never(t, last) == FALSE

\* mutant: an alert is still suppressed at the instant the gap has elapsed
RateLimited_Inclusive(t, last) == t - last <= minAlertGapMs

\* fireAlert: `if (now - lastAlertRef.current < minAlertGapMs) return`
RateLimited(t, last) == t - last < minAlertGapMs

\* mutant: the history is never cut
Take_All(s, n) == s

\* [...].slice(0, n)
Take(s, n) == SubSeq(s, 1, IF Len(s) < n THEN Len(s) ELSE n)

\* fireAlert(type, message, priority) of one version at time t: the new
\* lastAlertRef, alerts and the alerts handed to onAlert
fireAlert(t, last, hist, call) ==
  IF call = NoCall \/ RateLimited(t, last)
  THEN [last |-> last, hist |-> hist, fired |-> <<>>]
  ELSE LET alert == [type |-> call.type, priority |-> call.priority, timestamp |-> t] IN
       [last |-> t, hist |-> Take(<<alert>> \o hist, HistoryCap), fired |-> <<alert>>]

NoTick == [valid |-> FALSE]

\* one evaluation tick (setInterval(evaluate, checkIntervalMs) or the delayed
\* initial setTimeout(evaluate, 10_000)) on the metrics snapshot m
Evaluate(m) ==
  LET res == [v \in Versions |-> fireAlert(now, lastAlertRef[v], alerts[v], evaluate(v, m))] IN
  /\ lastAlertRef' = [v \in Versions |-> res[v].last]
  /\ alerts' = [v \in Versions |-> res[v].hist]
  /\ tick' = [valid |-> TRUE, present |-> m.isPresent, matched |-> Matched(m),
              cooled |-> [v \in Versions |-> ~RateLimited(now, lastAlertRef[v])],
              fired |-> [v \in Versions |-> res[v].fired]]
  /\ emitted' = [v \in Versions |-> emitted[v] \o res[v].fired]
  /\ UNCHANGED now
  /\ RulesOnly

\* time passes
Advance ==
  /\ now < minAlertGapMs + MaxTime
  /\ now' = now + 1
  /\ UNCHANGED <<lastAlertRef, alerts, tick, emitted>>
  /\ RulesOnly

\* Date.now() is far beyond minAlertGapMs when the hook mounts
InitRules ==
  /\ now = minAlertGapMs
  /\ lastAlertRef = [v \in Versions |-> 0]
  /\ alerts = [v \in Versions |-> <<>>]
  /\ tick = NoTick
  /\ emitted = [v \in Versions |-> <<>>]

NextRules ==
  \/ \E m \in Metrics : Evaluate(m)
  \/ Advance

\* the long run: the user sits badly for hours (rule 2 holds on every tick)
\* or is away
LongRunMetrics ==
  {m \in Metrics : /\ m.wpmTrend = "stable" /\ m.postureScore = 40
                   /\ m.focusDurationMin = 30 /\ m.breaksTaken = 1}

\* time passes, long enough for the alert history to overflow; in total the
\* clock runs at most LongRunSlack ahead of the earliest time at which the
\* alerts emitted so far and the next one can have been emitted
AdvanceLong ==
  /\ now < minAlertGapMs * (HistoryCap + 2) + LongRunSlack
  /\ \A v \in Versions :
       now < minAlertGapMs * (Len(emitted[v]) + 1) + LongRunSlack
  /\ now' = now + 1
  /\ UNCHANGED <<lastAlertRef, alerts, tick, emitted>>
  /\ RulesOnly

NextLongRun ==
  \/ \E m \in LongRunMetrics : Evaluate(m)
  \/ AdvanceLong


(***************************************************************************)
(* Voice capture: components/hud/VoiceOrb.tsx over hooks/useVoiceListener  *)
(*                                                                         *)
(* orb = the component's state and refs:                                   *)
(*   mode, countdown           useState                                    *)
(*   countdownRef              "null" | "live" | "cleared" (the interval   *)
(*                             the ref holds was cleared, the ref was not) *)
(*   cooldownRef               a cooldown timeout is pending               *)
(*   liveIntervals             countdown intervals scheduled, whether the  *)
(*                             ref still holds them or not                 *)
(*   mounted                                                               *)
(* mic = the hook's state and refs:                                        *)
(*   isListening, isProcessing, lastTranscript, error     useState         *)
(*     (lastTranscript, error: TRUE when not null; isSpeaking mirrors      *)
(*      isSpeakingRef)                                                     *)
(*   streamRef                 streamRef/audioCtxRef/analyserRef not null  *)
(*   recorder                  "none" (recorderRef null) or the state of   *)
(*                             recorderRef.current                         *)
(*   silenceTimerRef           "null" | "live" | "stale" (cleared timer,   *)
(*                             ref not reset)                              *)
(*   isSpeakingRef                                                         *)
(*   rafLoops                  requestAnimationFrame(checkVAD) loops alive *)
(*   liveStreams               media streams whose tracks were not stopped *)
(*   acquiring                 getUserMedia calls not yet settled          *)
(*   inflight                  transcriptions awaited by processAudioChunk *)
(*   pendingStop               the dataavailable+stop event a stopped      *)
(*                             recorder has queued, with the blob it holds *)
(***************************************************************************)
Modes == {"ready", "listening", "processing", "cooldown"}

\* processAudioChunk: `if (blob.size < 1000) return`
MinBlobBytes == 1000

\* sizes of the data a recorder gathered: nothing, below and above the minimum
BlobSizes == {0, 500, 2000}

NoBlob == [size |-> 0, origin |-> "none"]

\* typeof window.__TAURI__ !== "undefined"
HasNativeBackend == tauri

\* clearInterval(countdownRef.current) when the ref is not null
ClearCountdown(o) ==
  IF o.countdownRef = "live"
  THEN [o EXCEPT !.countdownRef = "cleared", !.liveIntervals = @ - 1]
  ELSE o

\* useVoiceListener start(), up to `await getUserMedia`
start(v) ==
  IF v.streamRef THEN v ELSE [v EXCEPT !.acquiring = @ + 1]

\* useVoiceListener stop(); `size` is what the recorder had gathered if it
\* was recording: recorder.stop() queues its dataavailable and stop events
stop(v, size) ==
  [v EXCEPT !.rafLoops = IF @ > 0 THEN @ - 1 ELSE 0,
            !.silenceTimerRef = IF @ = "live" THEN "stale" ELSE @,
            !.pendingStop = IF v.recorder = "recording"
                            THEN [size |-> size, origin |-> "abort"] ELSE @,
            !.liveStreams = IF v.streamRef THEN @ - 1 ELSE @,
            !.streamRef = FALSE,
            !.recorder = "none",
            !.isSpeakingRef = FALSE,
            !.isListening = FALSE, !.isProcessing = FALSE,
            !.lastTranscript = FALSE, !.error = FALSE]

\* mutant: a plain toggle (stop when listening, start otherwise)
PressAction_Toggle(m) == IF m = "listening" THEN "deactivate" ELSE "activate"

\* handleClick / the hotkey callback, with the guards of activate and
\* deactivate they call:
\*   if (mode === "ready") activate(); else if (mode === "listening") deactivate()
\*   activate: if (mode !== "ready") return;  deactivate: if (mode === "listening")
PressAction(m) ==
  IF m = "ready" THEN (IF m # "ready" THEN "none" ELSE "activate")
  ELSE IF m = "listening" THEN (IF m = "listening" THEN "deactivate" ELSE "none")
  ELSE "none"

\* VoiceOrb activate(), reached by a click (k = "click") or the hotkey (k = "hotkey")
activate(k) ==
  /\ orb.mounted
  /\ PressAction(orb.mode) = "activate"
  /\ activations < MaxActivations
  /\ activations' = activations + 1
  /\ mic' = start(mic)
  /\ orb' = [orb EXCEPT !.mode = "listening",
                        !.countdown = ListenSecs,
                        !.countdownRef = "live",
                        !.liveIntervals = @ + 1]
  /\ lastInput' = [pressed |-> TRUE, at |-> orb.mode]
  /\ UNCHANGED <<tauri, handed, recordings>>
  /\ VoiceOnly

\* VoiceOrb deactivate(), reached by a click or the hotkey
deactivate(k) ==
  /\ orb.mounted
  /\ PressAction(orb.mode) = "deactivate"
  /\ \E size \in BlobSizes : mic' = stop(mic, size)
  /\ orb' = [ClearCountdown(orb) EXCEPT !.countdownRef = "null",
                                        !.mode = "ready",
                                        !.countdown = 0]
  /\ lastInput' = [pressed |-> TRUE, at |-> orb.mode]
  /\ UNCHANGED <<tauri, handed, activations, recordings>>
  /\ VoiceOnly

\* a click or hotkey press the handler ignores
ignoredPress(k) ==
  /\ orb.mounted
  /\ PressAction(orb.mode) = "none"
  /\ lastInput' = [pressed |-> TRUE, at |-> orb.mode]
  /\ UNCHANGED <<tauri, orb, mic, handed, activations, recordings>>
  /\ VoiceOnly

\* getUserMedia resolves: the rest of start()
AcquireOk ==
  /\ orb.mounted
  /\ mic.acquiring > 0
  /\ mic' = [mic EXCEPT !.acquiring = @ - 1,
                        !.streamRef = TRUE,
                        !.liveStreams = @ + 1,
                        !.recorder = "inactive",
                        !.isListening = TRUE,
                        !.error = FALSE,
                        !.rafLoops = @ + 1]
  /\ UNCHANGED <<tauri, orb, handed, activations, recordings, lastInput>>
  /\ VoiceOnly

\* getUserMedia rejects: the catch of start()
AcquireFail ==
  /\ orb.mounted
  /\ mic.acquiring > 0
  /\ mic' = [mic EXCEPT !.acquiring = @ - 1, !.error = TRUE]
  /\ UNCHANGED <<tauri, orb, handed, activations, recordings, lastInput>>
  /\ VoiceOnly

\* one animation frame of checkVAD; loud = rms > amplitudeThreshold.
\* A stopped recorder's events are delivered before the next frame.
checkVAD(loud) ==
  /\ orb.mounted
  /\ mic.rafLoops > 0
  /\ mic.pendingStop = NoBlob
  /\ IF ~mic.streamRef
     THEN \* analyserRef.current is null: return without requesting a frame
          /\ mic' = [mic EXCEPT !.rafLoops = @ - 1]
          /\ UNCHANGED recordings
     ELSE IF loud
     THEN LET starts == ~mic.isSpeakingRef /\ mic.recorder = "inactive" IN
          /\ starts => recordings < MaxRecordings
          /\ recordings' = IF starts THEN recordings + 1 ELSE recordings
          /\ mic' = [mic EXCEPT !.isSpeakingRef = TRUE,
                                !.recorder = IF starts THEN "recording" ELSE @,
                                !.silenceTimerRef = "null"]
     ELSE /\ mic' = [mic EXCEPT !.silenceTimerRef =
                       IF mic.isSpeakingRef /\ @ = "null" THEN "live" ELSE @]
          /\ UNCHANGED recordings
  /\ UNCHANGED <<tauri, orb, handed, activations, lastInput>>
  /\ VoiceOnly

\* the silence timeout set by checkVAD fires; long = speechDuration >= minSpeechMs
SilenceTimerFires(long, size) ==
  /\ orb.mounted
  /\ mic.silenceTimerRef = "live"
  /\ mic' = [mic EXCEPT !.isSpeakingRef = FALSE,
                        !.silenceTimerRef = "null",
                        !.recorder = IF @ = "recording" THEN "inactive" ELSE @,
                        !.pendingStop =
                          IF mic.recorder = "recording"
                          THEN [size |-> size, origin |-> IF long THEN "silence" ELSE "short"]
                          ELSE @]
  /\ UNCHANGED <<tauri, orb, handed, activations, recordings, lastInput>>
  /\ VoiceOnly

\* mutant: every blob is processed, whatever its size
processAudioChunk_NoSizeGuard(v, blob) ==
  [v EXCEPT !.isProcessing = TRUE,
            !.inflight = IF HasNativeBackend THEN @ + 1 ELSE @]

\* processAudioChunk(blob) up to its first await; skipped records that a
\* call returned on the size test
processAudioChunk(v, blob) ==
  IF blob.size < MinBlobBytes THEN [v EXCEPT !.skipped = TRUE]
  ELSE [v EXCEPT !.isProcessing = TRUE,
                 !.inflight = IF HasNativeBackend THEN @ + 1 ELSE @]

\* the recorder's dataavailable and stop events: ondataavailable pushes the
\* data if it is not empty, onstop hands the chunks to processAudioChunk
RecorderStopEvent ==
  /\ orb.mounted
  /\ mic.pendingStop # NoBlob
  /\ LET blob == mic.pendingStop
         v == [mic EXCEPT !.pendingStop = NoBlob] IN
     IF blob.size > 0
     THEN /\ mic' = processAudioChunk(v, blob)
          /\ handed' = IF blob.size < MinBlobBytes THEN handed ELSE handed \cup {blob.origin}
     ELSE /\ mic' = v
          /\ UNCHANGED handed
  /\ UNCHANGED <<tauri, orb, activations, recordings, lastInput>>
  /\ VoiceOnly

TranscriptionOutcomes == {"text", "empty", "fail"}

\* the invoke calls of processAudioChunk settle
TranscriptionDone(outcome) ==
  /\ orb.mounted
  /\ mic.inflight > 0
  /\ mic' = [mic EXCEPT !.inflight = @ - 1,
                        !.isProcessing = FALSE,
                        !.lastTranscript = IF outcome = "text" THEN TRUE ELSE @,
                        !.error = IF outcome = "fail" THEN TRUE ELSE @]
  /\ UNCHANGED <<tauri, orb, handed, activations, recordings, lastInput>>
  /\ VoiceOnly

\* one firing of a countdown interval: the setCountdown updater.
\* Nothing else runs when the countdown ends: VoiceOrb passes handleTimeout
\* to the hook as onTimeout (with timeoutMs), but useVoiceListener declares
\* no such options and never calls it.
CountdownTick ==
  /\ orb.mounted
  /\ orb.liveIntervals > 0
  /\ orb' = IF orb.countdown <= 1
            THEN [ClearCountdown(orb) EXCEPT !.countdown = 0]
            ELSE [orb EXCEPT !.countdown = @ - 1]
  /\ UNCHANGED <<tauri, mic, handed, activations, recordings, lastInput>>
  /\ VoiceOnly

\* mutant: processing is left straight for ready
AfterProcessing_Ready == "ready"

\* the "Sync processing state" effect: setMode("cooldown")
AfterProcessing == "cooldown"

\* the effect, first branch: voice.isProcessing && mode === "listening"
EffectEnterProcessing ==
  /\ orb.mounted
  /\ mic.isProcessing /\ orb.mode = "listening"
  /\ orb' = [orb EXCEPT !.mode = "processing"]
  /\ UNCHANGED <<tauri, mic, handed, activations, recordings, lastInput>>
  /\ VoiceOnly

\* the effect, second branch: !voice.isProcessing && mode === "processing"
EffectLeaveProcessing ==
  /\ orb.mounted
  /\ ~mic.isProcessing /\ orb.mode = "processing"
  /\ orb' = [orb EXCEPT !.mode = AfterProcessing, !.cooldownRef = TRUE]
  /\ UNCHANGED <<tauri, mic, handed, activations, recordings, lastInput>>
  /\ VoiceOnly

\* the cooldown timeout fires
CooldownFires ==
  /\ orb.mounted
  /\ orb.cooldownRef
  /\ orb' = [orb EXCEPT !.mode = "ready", !.cooldownRef = FALSE]
  /\ UNCHANGED <<tauri, mic, handed, activations, recordings, lastInput>>
  /\ VoiceOnly

\* the component unmounts: VoiceOrb's cleanup clears its two timers; the
\* hook's cleanup tests the isListening of the render that installed it
\* (the first, where it is false) and so never calls stop()
Unmount ==
  /\ orb.mounted
  /\ orb' = [ClearCountdown(orb) EXCEPT !.mounted = FALSE, !.cooldownRef = FALSE]
  /\ UNCHANGED <<tauri, mic, handed, activations, recordings, lastInput>>
  /\ VoiceOnly

InitVoice ==
  /\ orb = [mode |-> "ready", countdown |-> 0, countdownRef |-> "null",
            cooldownRef |-> FALSE, liveIntervals |-> 0, mounted |-> TRUE]
  /\ mic = [isListening |-> FALSE, isProcessing |-> FALSE, lastTranscript |-> FALSE,
            error |-> FALSE, streamRef |-> FALSE, recorder |-> "none",
            silenceTimerRef |-> "null", isSpeakingRef |-> FALSE, rafLoops |-> 0,
            liveStreams |-> 0, acquiring |-> 0, inflight |-> 0, pendingStop |-> NoBlob,
            skipped |-> FALSE]
  /\ handed = {}
  /\ activations = 0
  /\ recordings = 0
  /\ lastInput = [pressed |-> FALSE, at |-> "ready"]

PressKinds == {"click", "hotkey"}

\* the steps the event loop takes on its own
VoiceInternal ==
  \/ AcquireOk
  \/ AcquireFail
  \/ \E long \in BOOLEAN, size \in BlobSizes : SilenceTimerFires(long, size)
  \/ RecorderStopEvent
  \/ \E outcome \in TranscriptionOutcomes : TranscriptionDone(outcome)
  \/ CountdownTick
  \/ EffectEnterProcessing
  \/ EffectLeaveProcessing
  \/ CooldownFires

NextVoice ==
  \/ \E k \in PressKinds : activate(k)
  \/ \E k \in PressKinds : deactivate(k)
  \/ \E k \in PressKinds : ignoredPress(k)
  \/ \E loud \in BOOLEAN : checkVAD(loud)
  \/ Unmount
  \/ VoiceInternal

(***************************************************************************)
(* Presence detector (hooks/usePresenceDetector)                           *)
(*                                                                         *)
(* App mounts the hook once with enabled: true, so the mount effect has    *)
(* called start() and getUserMedia is pending in the initial state.  The   *)
(* frame analysis itself (luma standard deviation against the brightness   *)
(* threshold) is the input `frame` of a tick.                              *)
(***************************************************************************)
\* what one interval tick finds: the video element not ready (early
\* return), or a frame with or without a face (stdDev > brightnessThreshold)
Frames == {"notready", "face", "noface"}

\* mutant: the absence threshold is met, not exceeded
Leaves_AtThreshold(p, t) ==
  t - p.lastSeenRef >= absenceThresholdMs /\ p.wasPresentRef

\* mutant: the transition is not latched by wasPresentRef
Leaves_Unlatched(p, t) ==
  t - p.lastSeenRef > absenceThresholdMs

\* analyzeFrame, no-face branch: the test that marks the user as gone
Leaves(p, t) ==
  t - p.lastSeenRef > absenceThresholdMs /\ p.wasPresentRef

\* analyzeFrame, face branch: the new hook state and the callbacks invoked
faceDetected(p, t) ==
  IF ~p.wasPresentRef
  THEN [p |-> [p EXCEPT !.lastSeenRef = t, !.wasPresentRef = TRUE,
                        !.awayStartRef = 0, !.isPresent = TRUE,
                        !.awayDurationMs = 0, !.lastSeenAt = t],
        cb |-> <<"onReturn">>]
  ELSE [p |-> [p EXCEPT !.lastSeenRef = t, !.lastSeenAt = t, !.awayDurationMs = 0],
        cb |-> <<>>]

\* analyzeFrame, no-face branch
noFace(p, t) ==
  IF Leaves(p, t)
  THEN [p |-> [p EXCEPT !.wasPresentRef = FALSE, !.awayStartRef = t,
                        !.isPresent = FALSE,
                        !.awayDurationMs = t - p.lastSeenRef],
        cb |-> <<"onLeave">>]
  ELSE IF ~p.wasPresentRef
  THEN [p |-> [p EXCEPT !.awayDurationMs = t - p.awayStartRef], cb |-> <<>>]
  ELSE [p |-> p, cb |-> <<>>]

\* mutant: the catch of start() starts the analysis loop all the same
startFailed_StartsLoop(p) ==
  [p EXCEPT !.camera = "denied", !.cameraAvailable = FALSE, !.intervals = @ + 1]

\* start(), the catch: getUserMedia rejected
startFailed(p) ==
  [p EXCEPT !.camera = "denied", !.cameraAvailable = FALSE]

\* one firing of setInterval(analyzeFrame, checkIntervalMs)
analyzeFrame(frame) ==
  /\ presence.intervals > 0
  /\ LET r == IF frame = "notready" THEN [p |-> presence, cb |-> <<>>]
              ELSE IF frame = "face" THEN faceDetected(presence, clock)
              ELSE noFace(presence, clock)
     IN /\ presence' = r.p
        /\ calls' = calls \o r.cb
  /\ UNCHANGED clock
  /\ PresenceOnly

\* getUserMedia resolves: the rest of start()
CameraOk ==
  /\ presence.camera = "acquiring"
  /\ presence' = [presence EXCEPT !.camera = "granted", !.streamRef = TRUE,
                                  !.cameraAvailable = TRUE, !.intervals = @ + 1]
  /\ UNCHANGED <<clock, calls>>
  /\ PresenceOnly

\* getUserMedia rejects
CameraFail ==
  /\ presence.camera = "acquiring"
  /\ presence' = startFailed(presence)
  /\ UNCHANGED <<clock, calls>>
  /\ PresenceOnly

\* time passes
ClockAdvance ==
  /\ clock < MaxClock
  /\ clock' = clock + 1
  /\ UNCHANGED <<presence, calls>>
  /\ PresenceOnly

\* the first render (useState / useRef initial values) and the mount effect
InitPresence ==
  /\ clock = 0
  /\ presence = [isPresent |-> TRUE, awayDurationMs |-> 0, lastSeenAt |-> 0,
                 cameraAvailable |-> FALSE, streamRef |-> FALSE, intervals |-> 0,
                 wasPresentRef |-> TRUE, lastSeenRef |-> 0, awayStartRef |-> 0,
                 camera |-> "acquiring"]
  /\ calls = <<>>

NextPresence ==
  \/ \E frame \in Frames : analyzeFrame(frame)
  \/ CameraOk
  \/ CameraFail
  \/ ClockAdvance

(***************************************************************************)
(* Posture monitor (hooks/usePostureMonitor)                               *)
(*                                                                         *)
(* One step is one firing of setInterval(analyzePosture, checkIntervalMs); *)
(* time is counted in check intervals.  The centroid computation is the    *)
(* input of a tick: either the tick is skipped (video not ready, no 2d     *)
(* context, totalWeight < 100) or it yields a raw score posScore, already  *)
(* rounded and clamped to 0..100.  headPosition is not modelled.           *)
(***************************************************************************)
\* the raw scores a tick may yield: the two extremes of the clamp
RawScores == {0, 100}

\* what a tick finds: no usable frame, or a raw score
PostureInputs ==
  {[usable |-> FALSE, posScore |-> 0]}
    \cup {[usable |-> TRUE, posScore |-> raw] : raw \in RawScores}

\* the rolling window: `if (scoresRef.current.length > 10) shift()`
WindowSize == 10

\* `const isBad = avgScore < 60`
BadBelow == 60

RECURSIVE Sum(_)
\* scores.reduce((a, b) => a + b, 0)
Sum(scores) == IF scores = <<>> THEN 0 ELSE Head(scores) + Sum(Tail(scores))

\* Math.round(num / den) for num >= 0, den > 0: halves round up
MathRound(num, den) == (2 * num + den) \div (2 * den)

\* mutant: the window is never shifted
pushScore_NoShift(scores, raw) == Append(scores, raw)

\* scoresRef.current.push(posScore); shift when longer than the window
pushScore(scores, raw) ==
  IF Len(scores) + 1 > WindowSize THEN Tail(Append(scores, raw))
  ELSE Append(scores, raw)

\* mutant: the alert is not latched by alertedRef
ShouldAlert_Unlatched(duration, alerted) == duration > badPostureThresholdMs

\* `duration > badPostureThresholdMs && !alertedRef.current`
ShouldAlert(duration, alerted) == duration > badPostureThresholdMs /\ ~alerted

\* analyzePosture from the smoothing on, for raw score `raw` at time t:
\* the new hook state and the onBadPosture invocations
smoothAndLatch(p, raw, t) ==
  LET scores   == pushScore(p.scoresRef, raw)
      avgScore == MathRound(Sum(scores), Len(scores))
      badStart == IF p.badStartRef = 0 THEN t ELSE p.badStartRef
      duration == t - badStart
  IN IF avgScore < BadBelow
     THEN [p |-> [p EXCEPT !.scoresRef = scores, !.badStartRef = badStart,
                           !.alertedRef = @ \/ ShouldAlert(duration, p.alertedRef),
                           !.score = avgScore, !.isBadPosture = TRUE,
                           !.badDurationMs = duration],
           cb |-> IF ShouldAlert(duration, p.alertedRef)
                  THEN <<[at |-> t, duration |-> duration]>> ELSE <<>>,
           score |-> avgScore]
     ELSE [p |-> [p EXCEPT !.scoresRef = scores, !.badStartRef = 0,
                           !.alertedRef = FALSE,
                           !.score = avgScore, !.isBadPosture = FALSE,
                           !.badDurationMs = 0],
           cb |-> <<>>,
           score |-> avgScore]

\* one firing of the interval, a check interval after the previous one
analyzePosture(input) ==
  /\ ptime < MaxTicks
  /\ ptime' = ptime + 1
  /\ IF ~input.usable
     THEN UNCHANGED <<posture, tickLog, badCalls>>
     ELSE LET r == smoothAndLatch(posture, input.posScore, ptime + 1)
          IN /\ posture' = r.p
             /\ tickLog' = Append(tickLog, [at |-> ptime + 1, raw |-> input.posScore,
                                            score |-> r.score])
             /\ badCalls' = badCalls \o r.cb
  /\ PostureOnly

\* the first render
InitPosture ==
  /\ ptime = 0
  /\ posture = [score |-> 100, isBadPosture |-> FALSE, badDurationMs |-> 0,
                scoresRef |-> <<>>, badStartRef |-> 0, alertedRef |-> FALSE]
  /\ tickLog = <<>>
  /\ badCalls = <<>>

NextPosture == \E input \in PostureInputs : analyzePosture(input)

(***************************************************************************)
(* Typing speed (hooks/useKeystrokeWpm, lines 1-103)                       *)
(*                                                                         *)
(* One step is one firing of the evaluation interval.  The keystroke       *)
(* count of the last minute, hence currentWpm, is the input of a tick.     *)
(* Session time is counted in ticks, TicksPerMinute of them to the minute. *)
(***************************************************************************)
\* the typing speeds a tick may observe
WpmValues == {0, 35, 80}

\* evaluation ticks per minute of session time (60 000 / SAMPLE_INTERVAL,
\* scaled down)
TicksPerMinute == 2

\* `sessionMinutes >= 5`
CalibrationMinutes == 5

\* `if (historyRef.current.length > 12) slice(-12)`
TrendSamples == 12

\* Math.round((now - sessionStartRef.current) / 60_000) at tick number t
SessionMinutes(t) == MathRound(t, TicksPerMinute)

\* mutant: the baseline keeps following the peak after calibration
nextBaseline_NeverFrozen(calibrating, baseline, currentWpm) ==
  IF currentWpm > baseline THEN currentWpm ELSE baseline

\* the calibration block: the baseline tracks the peak while calibrating
nextBaseline(calibrating, baseline, currentWpm) ==
  IF calibrating /\ currentWpm > baseline THEN currentWpm ELSE baseline

\* the calibration block: whether calibration is still open after the tick
nextCalibrating(calibrating, baseline, minutes) ==
  calibrating /\ ~(minutes >= CalibrationMinutes /\ baseline > 0)

\* historyRef after the push and the slice(-12)
pushHistory(hist, currentWpm) ==
  LET h == Append(hist, currentWpm)
  IN IF Len(h) > TrendSamples THEN SubSeq(h, Len(h) - TrendSamples + 1, Len(h)) ELSE h

\* the trend of a history: second half against first half, 10% either way
Trend(hist) ==
  IF Len(hist) < 4 THEN "stable"
  ELSE LET half   == Len(hist) \div 2
           first  == SubSeq(hist, 1, half)
           second == SubSeq(hist, half + 1, Len(hist))
           n1     == Len(first)
           n2     == Len(second)
       IN IF 10 * Sum(second) * n1 > 11 * Sum(first) * n2 THEN "rising"
          ELSE IF 10 * Sum(second) * n1 < 9 * Sum(first) * n2 THEN "declining"
          ELSE "stable"

\* the fatigue block; drop = 1 - currentWpm / baseline against
\* HIGH_DROP 0.50, MODERATE_DROP 0.30, MILD_DROP 0.15
Fatigue(calibrating, baseline, currentWpm) ==
  IF ~calibrating /\ baseline > 0 /\ currentWpm > 0
  THEN IF 100 * (baseline - currentWpm) >= 50 * baseline THEN "high"
       ELSE IF 100 * (baseline - currentWpm) >= 30 * baseline THEN "moderate"
       ELSE IF 100 * (baseline - currentWpm) >= 15 * baseline THEN "mild"
       ELSE "none"
  ELSE "none"

\* one firing of the evaluation interval with currentWpm as computed from
\* the keystrokes of the last minute
EvaluateWpm(currentWpm) ==
  /\ wticks < MaxWpmTicks
  /\ wticks' = wticks + 1
  /\ LET minutes     == SessionMinutes(wticks + 1)
         baseline    == nextBaseline(wpm.calibratingRef, wpm.baselineRef, currentWpm)
         calibrating == nextCalibrating(wpm.calibratingRef, baseline, minutes)
         hist        == pushHistory(wpm.historyRef, currentWpm)
     IN wpm' = [wpm             |-> currentWpm,
                trend           |-> Trend(hist),
                fatigue         |-> Fatigue(calibrating, baseline, currentWpm),
                sessionMinutes  |-> minutes,
                baselineRef     |-> baseline,
                historyRef      |-> hist,
                calibratingRef  |-> calibrating]
  /\ WpmOnly

\* the first render
InitWpm ==
  /\ wticks = 0
  /\ wpm = [wpm |-> 0, trend |-> "stable", fatigue |-> "none", sessionMinutes |-> 0,
            baselineRef |-> 0, historyRef |-> <<>>, calibratingRef |-> TRUE]

NextWpm == \E currentWpm \in WpmValues : EvaluateWpm(currentWpm)

(***************************************************************************)
(* Daily summary (hooks/useDailySummary)                                   *)
(*                                                                         *)
(* checkTime runs from the one-minute interval and again whenever the      *)
(* effect re-runs (its dependency checkTime changes with every new         *)
(* onSummaryReady, that is with every render of App).  The wall clock      *)
(* steps through a few instants of each day; a fetchStats that is awaited  *)
(* settles before the day is over.                                         *)
(***************************************************************************)
\* the instants of a day at which checks are observed: local hour and minute
Instants ==
  << [hour |-> 0, minute |-> 0], [hour |-> 0, minute |-> 1],
     [hour |-> 0, minute |-> 3], [hour |-> 12, minute |-> 0],
     [hour |-> 22, minute |-> 0], [hour |-> 22, minute |-> 3],
     [hour |-> 22, minute |-> 5] >>

\* the targetHour option: the default and midnight
TargetHours == {0, 22}

\* the local time zone, in hours ahead of UTC
ZoneOffsets == {-3, 0, 3}

\* lastFiredDateRef before any firing: useRef("")
NoDate == -9

\* now.toISOString().slice(0, 10): the UTC date of a local instant
isoDate(day, hour, offset) ==
  IF hour - offset < 0 THEN day - 1
  ELSE IF hour - offset >= 24 THEN day + 1
  ELSE day

\* `now.getHours() === targetHour && now.getMinutes() < 5`
InWindow(t, targetHour) == t.hour = targetHour /\ t.minute < 5

\* `now.getHours() === 0 && now.getMinutes() < 2`
AtMidnight(t) == t.hour = 0 /\ t.minute < 2

\* mutant: the date guard never blocks
AlreadyFired_Never(last, todayStr) == FALSE

\* `lastFiredDateRef.current === todayStr`
AlreadyFired(last, todayStr) == last = todayStr

\* checkTime up to `await fetchStats()`, or to its end when it does not fire
checkTime ==
  /\ checked < MaxChecks
  /\ checked' = checked + 1
  /\ LET t        == Instants[sclock.idx]
         todayStr == isoDate(sclock.day, t.hour, scheduler.zone)
     IN IF scheduler.firedTodayRef
        THEN UNCHANGED scheduler
        ELSE IF InWindow(t, scheduler.targetHour)
        THEN IF AlreadyFired(scheduler.lastFiredDateRef, todayStr)
             THEN UNCHANGED scheduler
             ELSE scheduler' = [scheduler EXCEPT !.firedTodayRef = TRUE,
                                                 !.lastFiredDateRef = todayStr,
                                                 !.awaiting = @ \cup {t}]
        ELSE scheduler' = [scheduler EXCEPT !.firedTodayRef =
                                               IF AtMidnight(t) THEN FALSE ELSE @]
  /\ UNCHANGED <<sclock, summaries>>
  /\ SummaryOnly

\* mutant: the summary is delivered whatever fetchStats returned
deliverSummary_Always(log, stats, day) == Append(log, day)

\* `if (stats) { ...; onSummaryReady(summary) }`: fetchStats returns null
\* when the invoke failed
deliverSummary(log, stats, day) ==
  IF stats THEN Append(log, day) ELSE log

\* fetchStats settles for the check started at instant t: the rest of
\* checkTime, with the `now` of its start.  failedAfter records the day of
\* the last failed fetch and how many checks of that day had run by then.
StatsFetched(t, stats) ==
  /\ t \in scheduler.awaiting
  /\ summaries' = deliverSummary(summaries, stats, sclock.day)
  /\ scheduler' = [scheduler EXCEPT !.awaiting = @ \ {t},
                                    !.firedTodayRef =
                                       IF AtMidnight(t) THEN FALSE ELSE @,
                                    !.failedAfter =
                                       IF stats THEN @ ELSE [day |-> sclock.day,
                                                             checks |-> checked]]
  /\ UNCHANGED <<sclock, checked>>
  /\ SummaryOnly

\* the wall clock moves to the next instant
SummaryClockAdvance ==
  /\ IF sclock.idx < Len(Instants)
     THEN /\ sclock' = [sclock EXCEPT !.idx = @ + 1]
          /\ UNCHANGED checked
     ELSE /\ sclock.day < MaxDays
          /\ scheduler.awaiting = {}
          /\ sclock' = [day |-> sclock.day + 1, idx |-> 1]
          /\ checked' = 0
  /\ UNCHANGED <<scheduler, summaries>>
  /\ SummaryOnly

\* the first render, at noon of day 0, before the effect's first checkTime
InitSummary(hours, zones) ==
  /\ sclock = [day |-> 0, idx |-> 4]
  /\ scheduler \in [targetHour : hours, zone : zones, firedTodayRef : {FALSE},
                    lastFiredDateRef : {NoDate}, awaiting : {{}},
                    failedAfter : {[day |-> NoDate, checks |-> 0]}]
  /\ summaries = <<>>
  /\ checked = 0

NextSummary ==
  \/ checkTime
  \/ \E t \in {Instants[i] : i \in 1..Len(Instants)}, stats \in BOOLEAN :
       StatsFetched(t, stats)
  \/ SummaryClockAdvance

(***************************************************************************)
(* Blink rate (components/health/BlinkRateWidget)                          *)
(*                                                                         *)
(* Every startTracking call has its own closure (prevBrightness,           *)
(* blinkThreshold, calibrating, frameCount, brightnessHistory) and creates *)
(* its own stream, detection interval and statistics interval; the refs    *)
(* (streamRef, intervalRef, trackingRef, blinkCountRef) are shared.  The   *)
(* average brightness of the eye region is the input of a frame, and so is *)
(* whether 200 ms have passed since lastBlinkTimeRef.  brightnessHistory   *)
(* is read at calibration only: it is kept as its sum and length up to     *)
(* then.  The statistics are kept as "calibrating" or "live", without the  *)
(* rate.                                                                   *)
(***************************************************************************)
\* startTracking calls, in order; call k owns stream k and timers k
Sessions == 1..MaxBlinkStarts

\* `if (calibrating && frameCount < 30)`
CalibrationFrames == 30

\* the average brightness of the eye region in a frame
Brightness == {90, 100}

\* no stream in streamRef, no interval in intervalRef
NoSession == 0

\* the closure of a startTracking call before it reaches its `let`s, and
\* after its detection interval is cleared
NoLoop ==
  [prevBrightness |-> 0, blinkThreshold100 |-> 0, calibrating |-> TRUE,
   frameCount |-> 0, historySum |-> 0, historyLen |-> 0,
   calibrations |-> 0, early |-> 0]

\* mutant: the threshold is recomputed on every frame after the 29th
StillCalibrating_Always(l) == TRUE

\* `if (calibrating)` after the first 29 frames
StillCalibrating(l) == l.calibrating

\* detectBlink past its guard, on a frame of average brightness b; since
\* says whether Date.now() - lastBlinkTimeRef.current > 200.  The result is
\* the new closure and whether a blink was counted.  blinkThreshold100 is
\* 100 * historyLen * blinkThreshold (avg * 0.03 without the division).
sampleFrame(l, b, since) ==
  LET pushed == IF l.calibrating
                THEN [l EXCEPT !.historySum = @ + b, !.historyLen = @ + 1,
                               !.frameCount = @ + 1]
                ELSE [l EXCEPT !.frameCount = @ + 1]
  IN IF pushed.calibrating /\ pushed.frameCount < CalibrationFrames
     THEN [l |-> [pushed EXCEPT !.prevBrightness = b], blinked |-> FALSE]
     ELSE LET cal == IF StillCalibrating(pushed)
                     THEN [pushed EXCEPT !.blinkThreshold100 = 3 * pushed.historySum,
                                         !.calibrating = FALSE,
                                         !.calibrations = @ + 1]
                     ELSE pushed
              diff == cal.prevBrightness - b
              hit  == diff * 100 * cal.historyLen > cal.blinkThreshold100 /\ since
          IN [l |-> [cal EXCEPT !.prevBrightness = b,
                                !.early = IF hit /\ cal.frameCount < CalibrationFrames
                                          THEN @ + 1 ELSE @],
              blinked |-> hit]

\* stopTracking: the widget and the resources after it
stopTracking(w, c) ==
  [w |-> [w EXCEPT !.trackingRef = FALSE, !.streamRef = NoSession,
                   !.intervalRef = NoSession, !.stats = "null",
                   !.blinksPerMinute = 0, !.enabled = FALSE],
   c |-> [c EXCEPT !.liveStreams = @ \ {w.streamRef},
                   !.detTimers = @ \ {w.intervalRef}]]

\* the button while not enabled (or any other caller): startTracking up to
\* `await getUserMedia`.  A patient user waits for the previous call to
\* finish before pressing again.
startTracking(patient) ==
  /\ ~blink.enabled
  /\ patient => \A k \in Sessions : camera.phase[k] \notin {"acquiring", "playing"}
  /\ \E k \in Sessions :
       /\ camera.phase[k] = "new"
       /\ \A j \in Sessions : j < k => camera.phase[j] # "new"
       /\ camera' = [camera EXCEPT !.phase[k] = "acquiring"]
  /\ blink' = [blink EXCEPT !.error = FALSE]
  /\ UNCHANGED loops
  /\ BlinkOnly

\* getUserMedia resolves for call k: up to `await videoRef.current.play()`
StreamAcquired(k) ==
  /\ camera.phase[k] = "acquiring"
  /\ camera' = [camera EXCEPT !.phase[k] = "playing", !.liveStreams = @ \cup {k}]
  /\ blink' = [blink EXCEPT !.streamRef = k]
  /\ UNCHANGED loops
  /\ BlinkOnly

\* getUserMedia or play() rejects for call k: the catch
StartFails(k) ==
  /\ camera.phase[k] \in {"acquiring", "playing"}
  /\ camera' = [camera EXCEPT !.phase[k] = "failed"]
  /\ blink' = [blink EXCEPT !.error = TRUE, !.enabled = FALSE]
  /\ UNCHANGED loops
  /\ BlinkOnly

\* play() resolves for call k: the rest of startTracking
TrackingStarted(k) ==
  /\ camera.phase[k] = "playing"
  /\ camera' = [camera EXCEPT !.phase[k] = "running",
                              !.detTimers = @ \cup {k},
                              !.statTimers = @ \cup {k}]
  /\ blink' = [blink EXCEPT !.trackingRef = TRUE, !.blinkCountRef = 0,
                            !.lastBlinkTimeRef = blink.now,
                            !.startedAt = blink.now,
                            !.enabled = TRUE, !.intervalRef = k,
                            !.stats = "calibrating", !.blinksPerMinute = 0]
  /\ loops' = [loops EXCEPT ![k] = NoLoop]
  /\ BlinkOnly

\* one firing of call k's detection interval; it samples at most cap frames.
\* The clock counts statistics periods, so more than 200 ms have passed
\* since lastBlinkTimeRef once the clock has moved on, and either is
\* possible before.
detectBlink(k, b, since, cap) ==
  /\ k \in camera.detTimers
  /\ loops[k].frameCount < cap
  /\ blink.now > blink.lastBlinkTimeRef => since
  /\ IF ~blink.trackingRef
     THEN UNCHANGED <<blink, loops>>
     ELSE LET r == sampleFrame(loops[k], b, since)
          IN /\ loops' = [loops EXCEPT ![k] = r.l]
             /\ blink' = [blink EXCEPT !.blinkCountRef =
                                          IF r.blinked THEN @ + 1 ELSE @,
                                        !.lastBlinkTimeRef =
                                          IF r.blinked THEN blink.now ELSE @]
  /\ UNCHANGED camera
  /\ BlinkOnly

\* the statistics interval's period, in seconds
StatsPeriodSecs == 5

\* bpm of a statistics update: elapsed is taken from lastBlinkTimeRef
blinksPerMinute(w) ==
  LET elapsed == (w.now - w.lastBlinkTimeRef) * StatsPeriodSecs
      totalElapsed == IF elapsed > 60 THEN elapsed ELSE 60
  IN MathRound(w.blinkCountRef * 60, totalElapsed)

\* one firing of call k's statistics interval
statsTick(k) ==
  /\ k \in camera.statTimers
  /\ IF ~blink.trackingRef
     THEN /\ camera' = [camera EXCEPT !.statTimers = @ \ {k}]
          /\ UNCHANGED blink
     ELSE /\ blink' = [blink EXCEPT !.stats = "live",
                                    !.blinksPerMinute = blinksPerMinute(blink)]
          /\ UNCHANGED camera
  /\ UNCHANGED loops
  /\ BlinkOnly

\* the button while enabled: stopTracking
clickStop ==
  /\ blink.enabled
  /\ LET r == stopTracking(blink, camera)
     IN /\ blink' = r.w
        /\ camera' = r.c
        /\ loops' = [k \in Sessions |->
                       IF k \in r.c.detTimers THEN loops[k] ELSE NoLoop]
  /\ BlinkOnly

\* the first render
InitBlink ==
  /\ blink = [enabled |-> FALSE, error |-> FALSE, stats |-> "null",
              streamRef |-> NoSession, intervalRef |-> NoSession,
              trackingRef |-> FALSE, blinkCountRef |-> 0,
              lastBlinkTimeRef |-> 0, blinksPerMinute |-> 0,
              now |-> 0, startedAt |-> 0]
  /\ camera = [phase |-> [k \in Sessions |-> "new"], liveStreams |-> {},
               detTimers |-> {}, statTimers |-> {}]
  /\ loops = [k \in Sessions |-> NoLoop]

\* five seconds of tracking pass.  The detection interval fires every
\* 66 ms, so the 30 calibration frames lie within the first period.
BlinkClockAdvance ==
  /\ blink.now < MaxBlinkClock
  /\ blink.trackingRef
  /\ \A k \in camera.detTimers : ~loops[k].calibrating
  /\ blink' = [blink EXCEPT !.now = @ + 1]
  /\ UNCHANGED <<camera, loops>>
  /\ BlinkOnly

\* one session observed over a few minutes
NextBlinkRate ==
  \/ startTracking(TRUE) /\ camera.phase[1] = "new"
  \/ \E k \in Sessions : StreamAcquired(k)
  \/ \E k \in Sessions : StartFails(k)
  \/ \E k \in Sessions : TrackingStarted(k)
  \/ \E k \in Sessions, b \in Brightness, since \in BOOLEAN :
       detectBlink(k, b, since, CalibrationFrames + ExtraFrames)
  \/ \E k \in Sessions : statsTick(k)
  \/ clickStop
  \/ BlinkClockAdvance

\* sessions one after the other, each sampled past its calibration
NextBlink ==
  \/ startTracking(TRUE)
  \/ \E k \in Sessions : StreamAcquired(k)
  \/ \E k \in Sessions : StartFails(k)
  \/ \E k \in Sessions : TrackingStarted(k)
  \/ \E k \in Sessions, b \in Brightness, since \in BOOLEAN :
       detectBlink(k, b, since, CalibrationFrames + ExtraFrames)
  \/ \E k \in Sessions : statsTick(k)
  \/ clickStop

\* any sequence of presses, each session sampled for a few frames
NextBlinkLifecycle ==
  \/ startTracking(FALSE)
  \/ \E k \in Sessions : StreamAcquired(k)
  \/ \E k \in Sessions : StartFails(k)
  \/ \E k \in Sessions : TrackingStarted(k)
  \/ \E k \in Sessions, b \in Brightness, since \in BOOLEAN :
       detectBlink(k, b, since, LifecycleFrames)
  \/ \E k \in Sessions : statsTick(k)
  \/ clickStop

(***************************************************************************)
(* Global hotkey (hooks/useGlobalHotkey)                                   *)
(*                                                                         *)
(* A mount of the component runs the effect once (handleKeyDown never      *)
(* changes), with its own locals `unregister` and `usingBrowserFallback`   *)
(* and its own handleKeyDown.  The shortcut plugin keeps one handler for   *)
(* the chord; the window keeps the set of keydown listeners.  The hook     *)
(* exists twice: part_009 removes the listener only if this effect added   *)
(* it, the copy in usePostureMonitor.ts removes it always.                 *)
(***************************************************************************)
\* the mounts of one run, in order
Mounts == 1..MaxMounts

\* the two copies of the hook
HotkeyVersions == {"flagged", "plain"}

\* no mount is current; no handler is registered for the chord
NoMount == 0

\* the effect of a mount that has not happened yet
NoEffect ==
  [phase |-> "none", unregister |-> FALSE, usingBrowserFallback |-> FALSE,
   cleaned |-> FALSE, unregistering |-> FALSE]

\* the component mounts: the effect runs setup() up to its first await, or
\* to its end when there is no window.__TAURI__
Mount ==
  /\ hotkey.mounted = NoMount
  /\ hotkey.mounts < MaxMounts
  /\ LET k == hotkey.mounts + 1
     IN IF tauri
        THEN /\ effects' = [effects EXCEPT ![k].phase = "registering"]
             /\ hotkey' = [hotkey EXCEPT !.mounted = k, !.mounts = k]
        ELSE /\ effects' = [effects EXCEPT ![k].phase = "fallback",
                                           ![k].usingBrowserFallback = TRUE]
             /\ hotkey' = [hotkey EXCEPT !.mounted = k, !.mounts = k,
                                         !.listeners = @ \cup {k}]
  /\ HotkeyOnly

\* the import and register() of mount k resolve
RegisterResolves(k) ==
  /\ effects[k].phase = "registering"
  /\ effects' = [effects EXCEPT ![k].phase = "registered", ![k].unregister = TRUE]
  /\ hotkey' = [hotkey EXCEPT !.shortcut = k]
  /\ HotkeyOnly

\* the import or register() of mount k rejects: the catch
RegisterRejects(k) ==
  /\ effects[k].phase = "registering"
  /\ effects' = [effects EXCEPT ![k].phase = "fallback",
                                ![k].usingBrowserFallback = TRUE]
  /\ hotkey' = [hotkey EXCEPT !.listeners = @ \cup {k}]
  /\ HotkeyOnly

\* the component unmounts: the cleanup of the current effect
Unmount_hotkey ==
  /\ hotkey.mounted # NoMount
  /\ LET k == hotkey.mounted
         removes == hotkey.version = "plain" \/ effects[k].usingBrowserFallback
     IN /\ hotkey' = [hotkey EXCEPT !.mounted = NoMount,
                                    !.listeners = IF removes THEN @ \ {k} ELSE @]
        /\ effects' = [effects EXCEPT ![k].cleaned = TRUE,
                                      ![k].unregistering = effects[k].unregister]
  /\ HotkeyOnly

\* the import and unregister() started by the cleanup of mount k resolve
UnregisterResolves(k) ==
  /\ effects[k].unregistering
  /\ effects' = [effects EXCEPT ![k].unregistering = FALSE]
  /\ hotkey' = [hotkey EXCEPT !.shortcut = NoMount]
  /\ HotkeyOnly

\* before the first mount, for the given copies of the hook
InitHotkey(versions) ==
  /\ hotkey \in [version : versions, mounted : {NoMount}, mounts : {0},
                 shortcut : {NoMount}, listeners : {{}}]
  /\ effects = [k \in Mounts |-> NoEffect]

NextHotkey ==
  \/ Mount
  \/ \E k \in Mounts : RegisterResolves(k)
  \/ \E k \in Mounts : RegisterRejects(k)
  \/ Unmount_hotkey
  \/ \E k \in Mounts : UnregisterResolves(k)

(***************************************************************************)
(* Conversation mode (useConversationMode, part_010)                       *)
(*                                                                         *)
(* The hook's callers decide when startConversation, endConversation and   *)
(* processUserInput are called; the hook guards none of them.  A timer is  *)
(* identified by the order of its creation.  `quiet` records that the      *)
(* conversation was ended and that neither startConversation nor a new     *)
(* processUserInput has been called since.                                 *)
(***************************************************************************)
\* the processUserInput calls of one run, in order
InputIds == 1..MaxConvoInputs

\* windowTimerRef.current = null
NoTimer == 0

\* endConversation (also the body of the window timer and of the catch)
endConversation(c) ==
  [c EXCEPT !.timers = @ \ {c.windowTimerRef},
            !.windowTimerRef = NoTimer,
            !.state = "idle",
            !.quiet = TRUE]

\* `windowTimerRef.current = setTimeout(endConversation, windowMs)`
setWindowTimer(c) ==
  [c EXCEPT !.created = @ + 1,
            !.timers = @ \cup {c.created + 1},
            !.windowTimerRef = c.created + 1]

\* startConversation is called; the host starts a conversation when none
\* is shown as running
startConversation ==
  /\ convo.starts < MaxConvoStarts
  /\ convo.state = "idle"
  /\ convo' = setWindowTimer([convo EXCEPT !.starts = @ + 1, !.turns = 0,
                                           !.state = "listening", !.quiet = FALSE])
  /\ UNCHANGED inputs
  /\ ConvoOnly

\* endConversation is called by the host
EndConversation ==
  /\ convo' = endConversation(convo)
  /\ UNCHANGED inputs
  /\ ConvoOnly

\* window timer k fires
WindowTimerFires(k) ==
  /\ k \in convo.timers
  /\ convo' = endConversation([convo EXCEPT !.timers = @ \ {k}])
  /\ UNCHANGED inputs
  /\ ConvoOnly

\* processUserInput(text) is called: up to `await onUserMessage`
processUserInput(i) ==
  /\ inputs[i] = "new"
  /\ \A j \in InputIds : j < i => inputs[j] # "new"
  /\ LET c == [convo EXCEPT !.timers = @ \ {convo.windowTimerRef},
                            !.windowTimerRef = NoTimer,
                            !.turns = @ + 1,
                            !.quiet = FALSE]
     IN IF c.turns >= maxTurns * 2
        THEN /\ convo' = endConversation(c)
             /\ inputs' = [inputs EXCEPT ![i] = "done"]
        ELSE /\ convo' = [c EXCEPT !.state = "processing"]
             /\ inputs' = [inputs EXCEPT ![i] = "reply"]
  /\ ConvoOnly

\* onUserMessage resolves for call i: up to `await onAgentSpeak`
ReplyArrives(i) ==
  /\ inputs[i] = "reply"
  /\ convo' = [convo EXCEPT !.turns = @ + 1, !.state = "speaking"]
  /\ inputs' = [inputs EXCEPT ![i] = "speech"]
  /\ ConvoOnly

\* onAgentSpeak resolves for call i: the window reopens
SpeechEnds(i) ==
  /\ inputs[i] = "speech"
  /\ convo' = setWindowTimer([convo EXCEPT !.state = "listening"])
  /\ inputs' = [inputs EXCEPT ![i] = "done"]
  /\ ConvoOnly

\* onUserMessage or onAgentSpeak rejects for call i: the catch
InputFails(i) ==
  /\ inputs[i] \in {"reply", "speech"}
  /\ convo' = endConversation(convo)
  /\ inputs' = [inputs EXCEPT ![i] = "done"]
  /\ ConvoOnly

\* the first render
InitConvo ==
  /\ convo = [state |-> "idle", windowTimerRef |-> NoTimer, timers |-> {},
              created |-> 0, turns |-> 0, starts |-> 0, quiet |-> FALSE]
  /\ inputs = [i \in InputIds |-> "new"]

NextConvo ==
  \/ startConversation
  \/ EndConversation
  \/ \E k \in 1..(MaxConvoStarts + MaxConvoInputs) : WindowTimerFires(k)
  \/ \E i \in InputIds : processUserInput(i)
  \/ \E i \in InputIds : ReplyArrives(i)
  \/ \E i \in InputIds : SpeechEnds(i)
  \/ \E i \in InputIds : InputFails(i)

Init ==
  /\ InitQueue /\ InitRules /\ InitVoice /\ InitPresence /\ InitPosture
  /\ InitWpm /\ InitSummary({22}, {0}) /\ InitBlink /\ InitHotkey({"flagged"})
  /\ InitConvo
  /\ tauri = TRUE

\* the voice controller runs with and without the native shell
InitAnyBackend ==
  /\ InitQueue /\ InitRules /\ InitVoice /\ InitPresence /\ InitPosture
  /\ InitWpm /\ InitSummary({22}, {0}) /\ InitBlink /\ InitHotkey({"flagged"})
  /\ InitConvo
  /\ tauri \in BOOLEAN

SpecQueue == Init /\ [][NextQueue]_vars

\* every awaited promise of the running task settles: the TTS invoke
\* resolves or rejects, the playback ends or fails
QueueFairness ==
  /\ WF_vars(\E t \in TaskIds : AudioProduced(t) \/ AudioProductionThrows(t))
  /\ WF_vars(\E t \in TaskIds : PlaybackEnded(t) \/ PlaybackFails(t))

SpecQueueFair == SpecQueue /\ QueueFairness

SpecRules == Init /\ [][NextRules]_vars

SpecLongRun == Init /\ [][NextLongRun]_vars

SpecVoice == InitAnyBackend /\ [][NextVoice]_vars

SpecPresence == Init /\ [][NextPresence]_vars

SpecPosture == Init /\ [][NextPosture]_vars

SpecWpm == Init /\ [][NextWpm]_vars

\* the scheduler runs with any target hour in any time zone
InitAnySchedule ==
  /\ InitQueue /\ InitRules /\ InitVoice /\ InitPresence /\ InitPosture
  /\ InitWpm /\ InitSummary(TargetHours, ZoneOffsets) /\ InitBlink /\ InitHotkey({"flagged"})
  /\ InitConvo
  /\ tauri = TRUE

SpecSummary == InitAnySchedule /\ [][NextSummary]_vars

\* both copies of the hook, with and without the native shell
InitAnyHotkey ==
  /\ InitQueue /\ InitRules /\ InitVoice /\ InitPresence /\ InitPosture
  /\ InitWpm /\ InitSummary({22}, {0}) /\ InitBlink /\ InitHotkey(HotkeyVersions)
  /\ InitConvo
  /\ tauri \in BOOLEAN

SpecHotkey == InitAnyHotkey /\ [][NextHotkey]_vars

SpecConvo == Init /\ [][NextConvo]_vars

SpecBlink == Init /\ [][NextBlink]_vars

SpecBlinkLifecycle == Init /\ [][NextBlinkLifecycle]_vars

SpecBlinkRate == Init /\ [][NextBlinkRate]_vars

\* the event loop runs every callback that is due: timers, settled promises,
\* media events and effects; the user and the microphone input are free
VoiceFairness ==
  /\ WF_vars(AcquireOk \/ AcquireFail)
  /\ WF_vars(\E long \in BOOLEAN, size \in BlobSizes : SilenceTimerFires(long, size))
  /\ WF_vars(RecorderStopEvent)
  /\ WF_vars(\E outcome \in TranscriptionOutcomes : TranscriptionDone(outcome))
  /\ WF_vars(CountdownTick)
  /\ WF_vars(EffectEnterProcessing)
  /\ WF_vars(EffectLeaveProcessing)
  /\ WF_vars(CooldownFires)

SpecVoiceFair == SpecVoice /\ VoiceFairness

(***************************************************************************)
(* Claims on the speech queue                                              *)
(***************************************************************************)

\* C1: at most one queued task is executing (producing or playing audio) at
\* any instant, whatever the interleaving of queueSpeak calls and task
\* completions; hence a queueSpeak issued while a task is active starts none.
C1_MutualExclusion == Cardinality(ActiveTasks(taskPhase)) <= 1

\* C1 witness: a task was enqueued while another was active, and one task is
\* executing with another still waiting in the queue.
C1_Witness ==
  /\ \E t \in TaskIds : taskMeta[t].busy /\ taskPhase[t] = "queued"
  /\ \E t \in TaskIds : taskPhase[t] = "playing"

IsPrefixOfEnqueueOrder(log) == \A i \in 1..Len(log) : log[i] = i

\* C2: tasks start and complete in exactly their enqueue order (task ids are
\* handed out in enqueue order), also when enqueues happen while another task
\* is awaiting its audio or playing.
C2_Fifo ==
  /\ IsPrefixOfEnqueueOrder(startLog)
  /\ IsPrefixOfEnqueueOrder(doneLog)

\* C2 witness: every task ran to completion, two of them were enqueued while
\* a task was active, and the callers differ.
C2_Witness ==
  /\ Len(doneLog) = MaxTasks
  /\ Cardinality({t \in TaskIds : taskMeta[t].busy}) >= 2
  /\ Cardinality({taskMeta[t].caller : t \in TaskIds}) >= 2

(***************************************************************************)
(* Claims on the rules engine                                              *)
(***************************************************************************)

\* C3: no two emitted alerts have timestamps closer than minAlertGapMs,
\* whichever rules matched on whichever ticks (both versions of the hook).
C3_GlobalCooldown ==
  \A v \in Versions :
    \A i, j \in 1..Len(alerts[v]) :
      i < j => alerts[v][i].timestamp - alerts[v][j].timestamp >= minAlertGapMs

\* C3 witness: two alerts of different rules were emitted, and the last tick
\* matched a rule but was suppressed by the cooldown.
C3_Witness ==
  /\ Len(alerts["firstMatch"]) >= 2
  /\ alerts["firstMatch"][1].type # alerts["firstMatch"][2].type
  /\ tick.valid /\ tick.present /\ tick.matched # {}
  /\ ~tick.cooled["firstMatch"] /\ tick.fired["firstMatch"] = <<>>

MinPriority(rs) == CHOOSE p \in {RulePriority(r) : r \in rs} :
                     \A r \in rs : p <= RulePriority(r)

Qualifying(v) ==
  tick.valid /\ tick.present /\ tick.cooled[v] /\ tick.matched # {}

ArbitratedBy(v) ==
  Qualifying(v) =>
    /\ Len(tick.fired[v]) = 1
    /\ tick.fired[v][1].priority = MinPriority(tick.matched)

\* C4: on every tick where the user is present, the cooldown has expired and
\* some rule is true, exactly one alert is emitted and its priority is the
\* lowest priority number among the rules that are true.
C4_Arbitration == \A v \in Versions : ArbitratedBy(v)

(***************************************************************************)
(* Claims on the voice capture controller                                  *)
(***************************************************************************)
AllowedTransitions ==
  { <<"ready", "listening">>, <<"listening", "processing">>,
    <<"processing", "cooldown">>, <<"cooldown", "ready">>,
    <<"listening", "ready">>, <<"listening", "cooldown">> }

\* the step is a click or a hotkey press
IsPress == \E k \in PressKinds : activate(k) \/ deactivate(k) \/ ignoredPress(k)

\* C5: the mode only ever changes along ready->listening, listening->processing,
\* processing->cooldown, cooldown->ready, listening->ready and
\* listening->cooldown, and a click or hotkey press in processing or cooldown
\* leaves the mode unchanged.
C5_ModeTransitions ==
  [][ /\ orb'.mode # orb.mode => <<orb.mode, orb'.mode>> \in AllowedTransitions
      /\ (IsPress /\ orb.mode \in {"processing", "cooldown"}) => orb'.mode = orb.mode
    ]_vars

\* C5 witness: an utterance ended by silence was handed to transcription, a
\* press met the mode in processing and was ignored, and the mode has since
\* come back to ready through cooldown.
C5_Witness ==
  /\ handed = {"silence"}
  /\ lastInput.at = "processing"
  /\ orb.mode = "ready"
  /\ orb.mounted

\* C6: when the controller is listening and the countdown has expired, the
\* mode leaves listening (for cooldown) without any user action.
C6_ListeningTimesOut ==
  (orb.mounted /\ orb.mode = "listening" /\ orb.countdown = 0)
    ~> (~orb.mounted \/ orb.mode # "listening")

\* C7: once the mode is processing it eventually becomes cooldown, and the
\* isProcessing flag never stays true forever, with or without the native
\* transcription backend.
C7_ProcessingCompletes ==
  /\ (orb.mounted /\ orb.mode = "processing") ~> (~orb.mounted \/ orb.mode = "cooldown")
  /\ (orb.mounted /\ mic.isProcessing) ~> (~orb.mounted \/ ~mic.isProcessing)

\* C8: while the mode is cooldown every click or hotkey press leaves the mode
\* and the microphone state unchanged, and the mode becomes ready without any
\* user action (for as long as the component is mounted).
C8_CooldownDwell ==
  /\ [][ (IsPress /\ orb.mode = "cooldown") => (orb' = orb /\ mic' = mic) ]_vars
  /\ (orb.mounted /\ orb.mode = "cooldown") ~> (~orb.mounted \/ orb.mode = "ready")

\* C8 witness: after an utterance was processed, a press met the mode in
\* cooldown, which still lasts.
C8_Witness ==
  /\ handed = {"silence"}
  /\ lastInput.at = "cooldown"
  /\ orb.mode = "cooldown"
  /\ orb.cooldownRef
  /\ orb.mounted

\* C9: once a capture session is over (the mode is back to ready, or the
\* component is unmounted) the media stream is stopped and no countdown,
\* cooldown, silence or animation-frame timer remains scheduled.
C9_CleanupOnExit ==
  (orb.mode = "ready" \/ ~orb.mounted) =>
    /\ mic.liveStreams = 0
    /\ mic.rafLoops = 0
    /\ mic.silenceTimerRef # "live"
    /\ orb.liveIntervals = 0
    /\ ~orb.cooldownRef

\* C10: the audio captured in a session the user aborted by deactivating is
\* never handed to transcription (and so never sets isProcessing).
C10_AbortDiscardsAudio == "abort" \notin handed

\* C11: microphone acquisition failure is fail-closed: when getUserMedia
\* rejects on activation (the only acquisition in flight, no stream held),
\* the listener records an error, isListening stays false, no stream or
\* recorder is held, nothing retries, and the controller does not present
\* itself as listening.
C11_AcquireFailClosed ==
  [][(AcquireFail /\ mic.acquiring = 1 /\ ~mic.streamRef)
       => /\ mic'.error
          /\ ~mic'.isListening
          /\ ~mic'.streamRef /\ mic'.liveStreams = 0 /\ mic'.recorder = "none"
          /\ mic'.acquiring = 0
          /\ orb'.mode # "listening"]_vars

(***************************************************************************)
(* Claims on the presence detector                                         *)
(***************************************************************************)
\* C12: presence hysteresis: isPresent changes from true to false only on a
\* no-face tick at which now - lastSeenAt exceeds absenceThresholdMs; a
\* no-face tick within absenceThresholdMs of the last face detection leaves
\* isPresent true.
C12_Hysteresis ==
  [][/\ (presence.isPresent /\ ~presence'.isPresent)
          => /\ analyzeFrame("noface")
             /\ clock - presence.lastSeenAt > absenceThresholdMs
     /\ (analyzeFrame("noface") /\ presence.isPresent
           /\ clock - presence.lastSeenAt <= absenceThresholdMs)
          => presence'.isPresent]_vars

\* C12 witness: no-face ticks went by within the threshold without effect,
\* and a later one, past the threshold, marked the user as gone.
C12_Witness ==
  /\ ~presence.isPresent
  /\ presence.awayStartRef = absenceThresholdMs + 1
  /\ presence.lastSeenAt = 0

RECURSIVE Alternates(_, _)
\* calls is onLeave, onReturn, onLeave, ... from position i on
Alternates(cs, i) ==
  IF i > Len(cs) THEN TRUE
  ELSE /\ cs[i] = (IF i % 2 = 1 THEN "onLeave" ELSE "onReturn")
       /\ Alternates(cs, i + 1)

\* C13: onLeave is invoked exactly once per present->absent transition and
\* onReturn exactly once per absent->present transition, a tick without a
\* transition invokes nothing, and the calls alternate starting with onLeave.
C13_Callbacks ==
  /\ [][/\ (presence.isPresent /\ ~presence'.isPresent) => calls' = Append(calls, "onLeave")
        /\ (~presence.isPresent /\ presence'.isPresent) => calls' = Append(calls, "onReturn")
        /\ (presence.isPresent = presence'.isPresent) => calls' = calls]_vars
  /\ [](Alternates(calls, 1))

\* C13 witness: the user left, returned and left again, with repeated
\* absent ticks in between (awayDurationMs grew while away).
C13_Witness ==
  /\ calls = <<"onLeave", "onReturn", "onLeave">>
  /\ presence.awayDurationMs > 0
  /\ presence.awayStartRef < clock

\* C14: camera failure is fail-open: once acquisition has failed,
\* cameraAvailable is false, isPresent is true, no analysis timer runs and
\* neither callback has been called.
C14_CameraFailOpen ==
  presence.camera = "denied"
    => /\ ~presence.cameraAvailable
       /\ presence.isPresent
       /\ presence.intervals = 0
       /\ calls = <<>>

\* C14 witness: the acquisition failed and more than the absence threshold
\* has passed since.
C14_Witness ==
  /\ presence.camera = "denied"
  /\ clock > absenceThresholdMs + 1

(***************************************************************************)
(* Claims on the posture monitor                                           *)
(***************************************************************************)
\* the raw scores of the last n analysed frames
LastRaw(n) ==
  [i \in 1..n |-> tickLog[Len(tickLog) - n + i].raw]

\* k is an integer nearest to num / den
IsRounded(k, num, den) ==
  LET diff == k * den - num
  IN 2 * (IF diff < 0 THEN -diff ELSE diff) <= den

\* C15: the exposed posture score is an integer in [0,100] equal to the
\* rounded mean of the last min(n,10) raw per-tick scores, and once 10
\* samples exist a single raw sample changes it by at most 10 points.
C15_SmoothedScore ==
  /\ [](/\ posture.score \in 0..100
        /\ tickLog # <<>> =>
             LET n == IF Len(tickLog) < 10 THEN Len(tickLog) ELSE 10
             IN IsRounded(posture.score, Sum(LastRaw(n)), n))
  /\ [][Len(tickLog) >= 10
          => /\ posture'.score - posture.score <= 10
             /\ posture.score - posture'.score <= 10]_vars

\* C15 witness: an eleventh sample pushed the first one out of the window,
\* and the exposed score moved by the full 10 points.
C15_Witness ==
  /\ Len(tickLog) = 11
  /\ tickLog[1].raw = 0
  /\ tickLog[10].score = 90
  /\ posture.score = 100

\* the analysed frame i showed bad posture
BadAt(i) == tickLog[i].score < 60

\* the first frame of the bad streak that frame i belongs to
StreakStart(i) ==
  CHOOSE j \in 1..i :
    /\ \A k \in j..i : BadAt(k)
    /\ j = 1 \/ ~BadAt(j - 1)

\* how long the bad streak of frame i has lasted at frame i
StreakDuration(i) == tickLog[i].at - tickLog[StreakStart(i)].at

\* frame i is the first of its streak whose duration exceeds the threshold
FirstOverdue(i) ==
  /\ BadAt(i)
  /\ StreakDuration(i) > badPostureThresholdMs
  /\ \A j \in StreakStart(i)..(i - 1) : StreakDuration(j) <= badPostureThresholdMs

\* C16: within one continuous streak of ticks with smoothed score < 60,
\* onBadPosture is invoked exactly once, at the first tick whose streak
\* duration exceeds badPostureThresholdMs and with that duration as
\* argument; no other tick invokes it.
C16_BadPostureLatch ==
  /\ \A k \in 1..Len(badCalls) : \E i \in 1..Len(tickLog) : tickLog[i].at = badCalls[k].at
  /\ \A i \in 1..Len(tickLog) :
       LET at == {k \in 1..Len(badCalls) : badCalls[k].at = tickLog[i].at}
       IN IF FirstOverdue(i)
          THEN /\ Cardinality(at) = 1
               /\ \A k \in at : badCalls[k].duration = StreakDuration(i)
          ELSE at = {}

\* C16 witness: two streaks were alerted, with a recovery in between, and
\* the second streak went on after its alert without another one.
C16_Witness ==
  /\ Len(badCalls) = 2
  /\ posture.isBadPosture
  /\ posture.badDurationMs > badCalls[2].duration

(***************************************************************************)
(* Claims on the typing-speed baseline and fatigue                         *)
(***************************************************************************)
\* C17: the WPM baseline is non-decreasing across evaluation ticks while
\* calibrating (the running maximum of the observed WPM); once calibration
\* has closed it never changes again, and calibration never reopens.
C17_BaselineRatchet ==
  [][/\ wpm.calibratingRef
          => /\ wpm'.baselineRef >= wpm.baselineRef
             /\ wpm'.baselineRef >= wpm'.wpm
             /\ wpm'.baselineRef \in {wpm.baselineRef, wpm'.wpm}
     /\ ~wpm.calibratingRef
          => /\ wpm'.baselineRef = wpm.baselineRef
             /\ ~wpm'.calibratingRef]_vars

\* C17 witness: calibration closed on a baseline of 35, and a later tick
\* observed a higher speed without moving it.
C17_Witness ==
  /\ ~wpm.calibratingRef
  /\ wpm.baselineRef = 35
  /\ wpm.wpm = 80

\* C18: calibration closes only at a tick at which at least 5 minutes of
\* session time have elapsed and baseline > 0; at every tick before 5
\* minutes have elapsed calibration is still open and fatigue is none.
C18_CalibrationWindow ==
  /\ [][(wpm.calibratingRef /\ ~wpm'.calibratingRef)
          => /\ wticks' >= CalibrationMinutes * TicksPerMinute
             /\ wpm'.baselineRef > 0]_vars
  /\ [](wticks < CalibrationMinutes * TicksPerMinute
          => wpm.calibratingRef /\ wpm.fatigue = "none")

\* the band of the relative drop 1 - currentWpm / baseline
DropBand(baseline, currentWpm) ==
  IF 2 * (baseline - currentWpm) >= baseline THEN "high"
  ELSE IF 10 * (baseline - currentWpm) >= 3 * baseline THEN "moderate"
  ELSE IF 20 * (baseline - currentWpm) >= 3 * baseline THEN "mild"
  ELSE "none"

\* C19: on every evaluation tick after calibration has closed, for every
\* current WPM from 0 up to and above the baseline, fatigue equals the band
\* of the relative drop from the baseline.
C19_FatigueBands ==
  [][(~wpm.calibratingRef /\ wticks' = wticks + 1)
       => wpm'.fatigue = DropBand(wpm'.baselineRef, wpm'.wpm)]_vars

(***************************************************************************)
(* Claims on the daily summary                                             *)
(***************************************************************************)
\* C20: for any number of checks, overlapping or re-triggered, onSummaryReady
\* is invoked at most once per calendar date.
C20_OncePerDate ==
  \A i, j \in 1..Len(summaries) : i # j => summaries[i] # summaries[j]

\* C20 witness: the summary was delivered on two consecutive days, and on
\* the second day every check allowed for the day has run.
C20_Witness ==
  /\ summaries = <<1, 2>>
  /\ sclock.day = 2
  /\ checked = MaxChecks
  /\ scheduler.awaiting = {}

\* C21: after the summary has fired on day D, a check executed shortly after
\* the following midnight (local 00:00-00:01) resets the fired-today flag, so
\* that the summary can fire again in the target window of day D+1.
C21_DailyReset ==
  [][(/\ checkTime
      /\ summaries # <<>>
      /\ summaries[Len(summaries)] < sclock.day
      /\ AtMidnight(Instants[sclock.idx]))
       => ~scheduler'.firedTodayRef]_vars

(***************************************************************************)
(* Further claims on the rules engine                                      *)
(***************************************************************************)
\* C22: an evaluation tick whose metrics snapshot has isPresent = false
\* emits no alert and leaves the last-alert time and the alert history
\* unchanged, whatever the other metrics are (both versions of the hook).
C22_AbsenceGate ==
  [][(now' = now /\ tick'.valid /\ ~tick'.present)
       => /\ lastAlertRef' = lastAlertRef
          /\ alerts' = alerts
          /\ emitted' = emitted
          /\ \A v \in Versions : tick'.fired[v] = <<>>]_vars

\* C22 witness: the user was away on a tick on which rules held and the
\* cooldown had expired, after an alert had been emitted earlier.
C22_Witness ==
  /\ tick.valid /\ ~tick.present /\ tick.matched # {}
  /\ \A v \in Versions : tick.cooled[v] /\ Len(alerts[v]) = 1

\* the last n elements of a sequence, last first
NewestFirst(s, n) == [i \in 1..n |-> s[Len(s) + 1 - i]]

\* C23: the alerts list has at most 20 entries, holds exactly the most
\* recently emitted alerts with the newest first, and every entry was passed
\* to onAlert exactly once.
C23_HistoryBound ==
  \A v \in Versions :
    LET n == IF Len(emitted[v]) < 20 THEN Len(emitted[v]) ELSE 20
    IN /\ Len(alerts[v]) <= 20
       /\ alerts[v] = NewestFirst(emitted[v], n)
       /\ \A i \in 1..Len(alerts[v]) :
            Cardinality({k \in 1..Len(emitted[v]) : emitted[v][k] = alerts[v][i]}) = 1

\* C23 witness: 22 alerts were emitted and the two oldest have left the list.
C23_Witness ==
  \A v \in Versions : Len(emitted[v]) = 22 /\ Len(alerts[v]) = 20

(***************************************************************************)
(* Further claims on the speech queue                                      *)
(***************************************************************************)
SettledPhases == {"ok", "threw", "playfail"}

\* C24: if a task's audio production throws or its decode/playback fails,
\* the active flag is cleared, that task is dropped, and every task behind
\* it still runs, in order; a failure never leaves the queue blocked.
C24_Resilience ==
  /\ [](/\ _speechQueue # <<>> => (_isSpeaking /\ ActiveTasks(taskPhase) # {})
        /\ ActiveTasks(taskPhase) = {} => ~_isSpeaking
        /\ \A t \in TaskIds :
             taskPhase[t] \in {"threw", "playfail"}
               => /\ \A i \in 1..Len(_speechQueue) : _speechQueue[i] # t
                  /\ Cardinality({i \in 1..Len(startLog) : startLog[i] = t}) = 1
        /\ IsPrefixOfEnqueueOrder(startLog))
  /\ \A t \in TaskIds : (taskPhase[t] = "queued") ~> (taskPhase[t] \in SettledPhases)

\* C24 witness: the first task's production threw, the second task's
\* playback failed, and the third task, queued behind them, played.
C24_Witness ==
  /\ MaxTasks >= 3
  /\ taskPhase[1] = "threw" /\ taskPhase[2] = "playfail" /\ taskPhase[3] = "ok"
  /\ taskMeta[2].busy /\ taskMeta[3].busy

\* task u started after task t
StartedAfter(u, t) ==
  \E i, j \in 1..Len(startLog) : i < j /\ startLog[i] = t /\ startLog[j] = u

\* C25: after a decode or playback failure the shared audio-context handle
\* is null and the failed handle is closed; the next playback obtains a
\* fresh handle, and no later task plays on a closed handle.
C25_HandleReset ==
  /\ \A t \in TaskIds :
       taskPhase[t] = "playfail"
         => /\ audio.used[t] \in audio.closed
            /\ audio.ctx # audio.used[t]
            /\ \A u \in TaskIds :
                 (StartedAfter(u, t) /\ audio.used[u] # NoHandle)
                   => audio.used[u] # audio.used[t]
  /\ \A u \in TaskIds : taskPhase[u] = "playing" => audio.used[u] \notin audio.closed
  /\ audio.ctx \notin audio.closed

\* C25 witness: a playback failed and a later task played to the end on
\* another handle.
C25_Witness ==
  \E t, u \in TaskIds :
    /\ taskPhase[t] = "playfail" /\ taskPhase[u] = "ok"
    /\ StartedAfter(u, t)
    /\ audio.used[u] \notin {NoHandle, audio.used[t]}

C27_Lifecycle ==
  /\ (/\ ~blink.trackingRef
      /\ \A k \in Sessions : camera.phase[k] \notin {"acquiring", "playing"})
       => /\ camera.liveStreams = {}
          /\ camera.detTimers = {}
          /\ camera.statTimers = {}
  /\ blink.trackingRef
       => /\ Cardinality(camera.detTimers) <= 1
          /\ Cardinality(camera.statTimers) <= 1

(***************************************************************************)
(* Claims on the global hotkey                                             *)
(***************************************************************************)
Bindings == (IF hotkey.shortcut = NoMount THEN 0 ELSE 1) + Cardinality(hotkey.listeners)

\* C28: while the hook is mounted at most one activation binding (global
\* shortcut or local keydown listener) is active, after unmount (once a
\* started unregistration has completed) none remains active, and a local
\* listener is installed only when global registration is unavailable.
C28_SingleBinding ==
  /\ hotkey.mounted # NoMount => Bindings <= 1
  /\ (hotkey.mounted = NoMount /\ \A k \in Mounts : ~effects[k].unregistering)
       => Bindings = 0
  /\ \A k \in hotkey.listeners : effects[k].phase = "fallback"

(***************************************************************************)
(* Further claims on the voice listener                                    *)
(***************************************************************************)
\* C29: a voice segment whose speech duration is below minSpeechMs when the
\* silence timer fires is discarded: it never reaches transcription through
\* processAudioChunk, however the recorder's events are ordered.
C29_ShortDiscarded == "short" \notin handed

\* C30: a captured blob smaller than the minimum byte size (1000) causes no
\* transcription call and no change of isProcessing, lastTranscript or
\* error, and so no change of the controller's mode.
C30_SmallBlobSkipped ==
  [][(/\ RecorderStopEvent
      /\ mic.pendingStop.size > 0
      /\ mic.pendingStop.size < 1000)
       => /\ mic'.inflight = mic.inflight
          /\ mic'.isProcessing = mic.isProcessing
          /\ mic'.lastTranscript = mic.lastTranscript
          /\ mic'.error = mic.error
          /\ handed' = handed
          /\ orb' = orb]_vars

\* C30 witness: a small blob was handed to processAudioChunk while
\* listening, and the controller is still listening with nothing in flight.
C30_Witness ==
  /\ mic.skipped
  /\ activations = 1
  /\ mic.recorder = "inactive"
  /\ orb.mode = "listening"
  /\ ~mic.isProcessing
  /\ mic.inflight = 0
  /\ mic.pendingStop = NoBlob
  /\ handed = {}

\* C31: at every statistics update the reported blinksPerMinute equals
\* round(blinkCount / max(elapsedSeconds, 60) * 60), elapsedSeconds being
\* the observation time since tracking started.
C31_RatePerMinute ==
  [][\A k \in Sessions :
       (statsTick(k) /\ blink.trackingRef)
         => LET elapsedSeconds == (blink.now - blink.startedAt) * 5
                total == IF elapsedSeconds > 60 THEN elapsedSeconds ELSE 60
            IN blink'.blinksPerMinute
                 = (2 * blink.blinkCountRef * 60 + total) \div (2 * total)]_vars

(***************************************************************************)
(* Claims on the rules engine: cooldown ordering and the two versions      *)
(***************************************************************************)
\* C32: an evaluation tick inside the cooldown changes nothing (last-alert
\* time and history unchanged, nothing emitted) even though a rule is true,
\* and a tick at or after the cooldown's expiry at which the user is present
\* and some rule is true emits an alert (both versions of the hook).
C32_CooldownOrdering ==
  [][(now' = now /\ tick'.valid)
       => \A v \in Versions :
            /\ now - lastAlertRef[v] < minAlertGapMs
                 => /\ lastAlertRef'[v] = lastAlertRef[v]
                    /\ alerts'[v] = alerts[v]
                    /\ emitted'[v] = emitted[v]
            /\ (/\ now - lastAlertRef[v] >= minAlertGapMs
                /\ tick'.present
                /\ tick'.matched # {})
                 => /\ Len(emitted'[v]) = Len(emitted[v]) + 1
                    /\ lastAlertRef'[v] = now
                    /\ Head(alerts'[v]).timestamp = now]_vars

\* C32 witness: the second alert was emitted by the tick at the very instant
\* the cooldown of the first expired.
C32_Witness ==
  /\ Len(emitted["firstMatch"]) = 2
  /\ emitted["firstMatch"][2].timestamp - emitted["firstMatch"][1].timestamp = minAlertGapMs
  /\ tick.valid /\ tick.fired["firstMatch"] # <<>>
  /\ now = emitted["firstMatch"][2].timestamp

\* C33: the two implementations of the rules engine, run side by side on the
\* same snapshots and clock values, emit alerts on the same ticks with the
\* same type and priority.
C33_VersionsEquivalent == emitted["firstMatch"] = emitted["collect"]

(***************************************************************************)
(* Further claims on the voice capture controller                          *)
(***************************************************************************)
\* C34: at most one countdown interval is scheduled at any time, and none is
\* scheduled once the listening state has been left.
C34_SingleCountdown ==
  /\ orb.liveIntervals <= 1
  /\ orb.mode # "listening" => orb.liveIntervals = 0

(***************************************************************************)
(* Claims on the speech queue: progress and the speaking indicator         *)
(***************************************************************************)
\* C35: if every task's audio production and playback eventually finishes,
\* every enqueued task is eventually started, and whenever the queue is
\* empty and no task is running the active flag is false.
C35_QueueProgress ==
  /\ \A t \in TaskIds :
       (taskPhase[t] = "queued") ~> (\E i \in 1..Len(startLog) : startLog[i] = t)
  /\ []((_speechQueue = <<>> /\ ActiveTasks(taskPhase) = {}) => ~_isSpeaking)

\* C35 witness: two tasks were enqueued while another was running, all three
\* have been started and have played, and the queue is idle again.
C35_Witness ==
  /\ \A t \in TaskIds : taskPhase[t] = "ok"
  /\ \E t, u \in TaskIds : t # u /\ taskMeta[t].busy /\ taskMeta[u].busy
  /\ Len(startLog) = MaxTasks
  /\ _speechQueue = <<>>
  /\ ~_isSpeaking

\* C36: the store's isSpeaking flag is true from the start of each queued
\* task until its audio has finished playing, and false whenever no task is
\* active.
C36_SpeakingIndicator ==
  /\ ActiveTasks(taskPhase) # {} => isSpeaking
  /\ ActiveTasks(taskPhase) = {} => ~isSpeaking

(***************************************************************************)
(* Further claims on the daily summary                                     *)
(***************************************************************************)
\* C37: if fetching the day statistics fails during the firing window,
\* onSummaryReady is not called and the date stays recorded as fired; and a
\* check on a date recorded as fired starts no fetch, so nothing retries.
C37_StatsFailure ==
  [][/\ \A t \in scheduler.awaiting :
          StatsFetched(t, FALSE)
            => /\ summaries' = summaries
               /\ scheduler'.lastFiredDateRef = scheduler.lastFiredDateRef
               /\ scheduler.lastFiredDateRef # NoDate
     /\ (/\ checkTime
         /\ scheduler.lastFiredDateRef
              = isoDate(sclock.day, Instants[sclock.idx].hour, scheduler.zone))
          => scheduler'.awaiting = scheduler.awaiting]_vars

\* C37 witness: with the target hour 0 the fetch of the 00:00 check failed,
\* the midnight reset cleared the flag, and a later check of the same date,
\* still inside the window, has run without starting another fetch.
C37_Witness ==
  /\ scheduler.targetHour = 0
  /\ sclock.day = 1 /\ sclock.idx = 2
  /\ scheduler.failedAfter.day = sclock.day
  /\ checked > scheduler.failedAfter.checks
  /\ summaries = <<>>
  /\ ~scheduler.firedTodayRef
  /\ scheduler.lastFiredDateRef
       = isoDate(sclock.day, Instants[sclock.idx].hour, scheduler.zone)
  /\ scheduler.awaiting = {}

(***************************************************************************)
(* Further claims on the presence detector                                 *)
(***************************************************************************)
\* C38: from the tick that marks the user absent until the tick of their
\* return, awayDurationMs never decreases from one tick to the next, and it
\* is 0 in every state where isPresent is true.
C38_AwayMonotone ==
  /\ [](presence.isPresent => presence.awayDurationMs = 0)
  /\ [][(~presence.isPresent /\ ~presence'.isPresent)
          => presence'.awayDurationMs >= presence.awayDurationMs]_vars

(***************************************************************************)
(* Claims on the conversation mode                                         *)
(***************************************************************************)
\* C39: once endConversation has been called or the window timer has fired,
\* the conversation state is idle with no window timer pending, and stays so
\* until startConversation is called again (a new processUserInput call also
\* ends the obligation here), even if a processUserInput call was awaiting
\* the reply or the speech when the conversation ended.
C39_EndedStaysIdle ==
  convo.quiet => (convo.state = "idle" /\ convo.timers = {})

=============================================================================
